---- MODULE Spec2Model ----
(***************************************************************************)
(* Webhook ingestion and patient consolidation of the Crelio dashboard     *)
(* backend: the webhook controller (field extraction, Patient / Doctor /   *)
(* Lab / Report upsert), the consolidation service and the batch           *)
(* consolidation script, over a document store with unique indexes.        *)
(*                                                                         *)
(* JavaScript values are tagged records; JavaScript strings are sequences  *)
(* of one-character strings, so that trim, toLowerCase, includes and       *)
(* RegExp are computed character by character.                             *)
(***************************************************************************)
EXTENDS Integers, Sequences, FiniteSets, TLC

(***************************************************************************)
(* Bounds of the model                                                     *)
(***************************************************************************)
\* number of requests / runs the environment issues in one behaviour
MaxCalls == 3

\* the number of requests of a run with concurrent deliveries
MaxConcurrent == 2

(***************************************************************************)
(* JavaScript values                                                       *)
(***************************************************************************)
Null == [t |-> "null"]

Str(s) == [t |-> "string", v |-> s]

Num(n) == [t |-> "number", v |-> n]

IsNull(x) == x.t = "null"

IsStr(x) == x.t = "string"

IsNum(x) == x.t = "number"

\* JavaScript truthiness: null, "" and 0 are falsy
Truthy(x) ==
  CASE x.t = "null" -> FALSE
    [] x.t = "string" -> x.v # <<>>
    [] x.t = "number" -> x.v # 0
    [] OTHER -> TRUE

\* a || b
Or(a, b) == IF Truthy(a) THEN a ELSE b

Digit(d) == <<"0", "1", "2", "3", "4", "5", "6", "7", "8", "9">>[d + 1]

RECURSIVE NatToChars(_)
NatToChars(n) == IF n < 10 THEN <<Digit(n)>> ELSE NatToChars(n \div 10) \o <<Digit(n % 10)>>

\* String(x) as characters: of a string, of a non-negative integer, of null,
\* and of the other objects as Object.prototype.toString gives it
StringOf(x) ==
  IF x.t = "number" THEN NatToChars(x.v)
  ELSE IF x.t = "string" THEN x.v
  ELSE IF x.t = "null" THEN <<"n", "u", "l", "l">>
  ELSE <<"[", "o", "b", "j", "e", "c", "t", " ", "O", "b", "j", "e", "c", "t", "]">>

(***************************************************************************)
(* String primitives                                                       *)
(***************************************************************************)
UpperLetters == <<"A", "B", "C", "D", "E", "F", "G", "H", "I", "J", "K", "L", "M",
                  "N", "O", "P", "Q", "R", "S", "T", "U", "V", "W", "X", "Y", "Z">>

LowerLetters == <<"a", "b", "c", "d", "e", "f", "g", "h", "i", "j", "k", "l", "m",
                  "n", "o", "p", "q", "r", "s", "t", "u", "v", "w", "x", "y", "z">>

Digits == {"0", "1", "2", "3", "4", "5", "6", "7", "8", "9"}

LowerChar(c) ==
  IF \E i \in 1..26 : UpperLetters[i] = c
    THEN LowerLetters[CHOOSE i \in 1..26 : UpperLetters[i] = c]
    ELSE c

UpperChar(c) ==
  IF \E i \in 1..26 : LowerLetters[i] = c
    THEN UpperLetters[CHOOSE i \in 1..26 : LowerLetters[i] = c]
    ELSE c

\* String.prototype.toLowerCase
toLowerCase(s) == [i \in 1..Len(s) |-> LowerChar(s[i])]

\* String.prototype.toUpperCase
toUpperCase(s) == [i \in 1..Len(s) |-> UpperChar(s[i])]

\* \s of the characters the model uses
IsSpace(c) == c \in {" ", "\t", "\n"}

RECURSIVE TrimStart(_)
TrimStart(s) == IF s # <<>> /\ IsSpace(Head(s)) THEN TrimStart(Tail(s)) ELSE s

RECURSIVE TrimEnd(_)
TrimEnd(s) == IF s # <<>> /\ IsSpace(s[Len(s)]) THEN TrimEnd(SubSeq(s, 1, Len(s) - 1)) ELSE s

\* String.prototype.trim
trim(s) == TrimEnd(TrimStart(s))

\* s.substring(from, to), 0 <= from <= to
substring(s, from, to) == SubSeq(s, from + 1, IF to < Len(s) THEN to ELSE Len(s))

\* String.prototype.includes
includes(s, sub) ==
  \E i \in 1..(Len(s) + 1) : i + Len(sub) - 1 <= Len(s) /\ SubSeq(s, i, i + Len(sub) - 1) = sub

(***************************************************************************)
(* RegExp: the fragment the doctor lookups can build from a name made of   *)
(* letters, digits, spaces, "." and "+": literals, "\c" (escaped literal), *)
(* "." (any character), "+" (one or more of the previous atom), "^" as the *)
(* first and "$" as the last character.  The "i" flag compares letters     *)
(* without case.                                                           *)
(***************************************************************************)
RegExpSpecials == {".", "*", "+", "?", "^", "$", "{", "}", "(", ")", "|", "[", "]", "\\"}

\* str.replace(/[.*+?^${}()|[\]\\]/g, '\\$&')
RECURSIVE EscapeRegExp(_)
EscapeRegExp(s) ==
  IF s = <<>> THEN <<>>
  ELSE (IF Head(s) \in RegExpSpecials THEN <<"\\", Head(s)>> ELSE <<Head(s)>>)
       \o EscapeRegExp(Tail(s))

\* the pattern between a leading "^" and a trailing unescaped "$"
RegExpAnchoredStart(src) == src # <<>> /\ Head(src) = "^"

RegExpAnchoredEnd(src) ==
  /\ Len(src) >= 1
  /\ src[Len(src)] = "$"
  /\ ~(Len(src) >= 2 /\ src[Len(src) - 1] = "\\")

RegExpBody(src) ==
  SubSeq(src, IF RegExpAnchoredStart(src) THEN 2 ELSE 1,
              IF RegExpAnchoredEnd(src) THEN Len(src) - 1 ELSE Len(src))

\* the atoms of a pattern body; an atom of kind "invalid" marks a SyntaxError
\* (a quantifier with nothing to repeat, a trailing backslash)
RECURSIVE RegExpAtoms(_, _)
RegExpAtoms(body, acc) ==
  IF body = <<>> THEN acc
  ELSE IF Head(body) = "\\"
    THEN IF Len(body) < 2 THEN <<[kind |-> "invalid", ch |-> "", plus |-> FALSE]>>
         ELSE RegExpAtoms(SubSeq(body, 3, Len(body)),
                          Append(acc, [kind |-> "lit", ch |-> body[2], plus |-> FALSE]))
  ELSE IF Head(body) = "+"
    THEN IF acc = <<>> \/ acc[Len(acc)].plus THEN <<[kind |-> "invalid", ch |-> "", plus |-> FALSE]>>
         ELSE RegExpAtoms(Tail(body),
                          [acc EXCEPT ![Len(acc)] = [@ EXCEPT !.plus = TRUE]])
  ELSE IF Head(body) = "."
    THEN RegExpAtoms(Tail(body), Append(acc, [kind |-> "any", ch |-> ".", plus |-> FALSE]))
  ELSE RegExpAtoms(Tail(body), Append(acc, [kind |-> "lit", ch |-> Head(body), plus |-> FALSE]))

AtomMatches(atom, c) == atom.kind = "any" \/ LowerChar(atom.ch) = LowerChar(c)

\* atoms[i..] match s starting at position j (and up to the end when anchored)
RECURSIVE MatchAtoms(_, _, _, _, _)
MatchAtoms(atoms, i, s, j, toEnd) ==
  IF i > Len(atoms) THEN (toEnd => j = Len(s) + 1)
  ELSE IF ~atoms[i].plus
    THEN j <= Len(s) /\ AtomMatches(atoms[i], s[j]) /\ MatchAtoms(atoms, i + 1, s, j + 1, toEnd)
  ELSE \E k \in 1..(Len(s) - j + 1) :
         /\ \A m \in j..(j + k - 1) : AtomMatches(atoms[i], s[m])
         /\ MatchAtoms(atoms, i + 1, s, j + k, toEnd)

\* new RegExp(src, "i").test(s), for a valid pattern
RegExpTestI(src, s) ==
  LET atoms == RegExpAtoms(RegExpBody(src), <<>>)
      starts == IF RegExpAnchoredStart(src) THEN {1} ELSE 1..(Len(s) + 1)
  IN \E j \in starts : MatchAtoms(atoms, 1, s, j, RegExpAnchoredEnd(src))

\* the regular expression cannot be compiled
RegExpInvalid(src) == \E i \in 1..Len(RegExpAtoms(RegExpBody(src), <<>>)) :
                        RegExpAtoms(RegExpBody(src), <<>>)[i].kind = "invalid"

SetMin(S) == CHOOSE x \in S : \A y \in S : x <= y

SetMax(S) == CHOOSE x \in S : \A y \in S : x >= y

(***************************************************************************)
(* Field Extractor (webhookController.js)                                  *)
(* A payload is a JSON object: the sequence of its <<key, value>> pairs in *)
(* insertion order, keys distinct.                                         *)
(***************************************************************************)
HasOwn(payload, name) == \E i \in 1..Len(payload) : payload[i][1] = name

GetOwn(payload, name) == payload[CHOOSE i \in 1..Len(payload) : payload[i][1] = name][2]

\* a variant that compares the trimmed string with "n/a" and "null" as written
cleanFieldValueAsWritten(value) ==
  IF IsNull(value) THEN Null
  ELSE IF IsStr(value)
    THEN LET trimmed == trim(value.v)
         IN IF \/ trimmed = <<>>
               \/ trimmed = <<"-">>
               \/ trimmed = <<"n", "/", "a">>
               \/ trimmed = <<"n", "u", "l", "l">>
              THEN Null
              ELSE Str(trimmed)
  ELSE value

cleanFieldValue(value) ==
  IF IsNull(value) THEN Null
  ELSE IF IsStr(value)
    THEN LET trimmed == trim(value.v)
         IN IF \/ trimmed = <<>>
               \/ trimmed = <<"-">>
               \/ toLowerCase(trimmed) = <<"n", "/", "a">>
               \/ toLowerCase(trimmed) = <<"n", "u", "l", "l">>
              THEN Null
              ELSE Str(trimmed)
  ELSE value

\* the candidate key names of each known field, in the order the source lists them
Candidates ==
  [ reportId |-> <<"CentreReportId", "centreReportId", "reportId", "ReportId", "Report Id", "report_id",
                    "REPORT_ID", "id", "ID">>,
    reportBase64 |-> <<"reportBase64", "ReportBase64", "report_base64", "REPORT_BASE64", "pdfBase64",
                        "PdfBase64", "pdf_base64", "PDF_BASE64", "base64", "Base64", "BASE64", "data", "Data">>,
    billId |-> <<"billId", "BillId", "bill_id", "BILL_ID", "billNumber", "BillNumber">>,
    testId |-> <<"testID", "testId", "TestId", "test_id", "TEST_ID", "testID", "testNumber",
                  "TestNumber">>,
    patientName |-> <<"patientName", "PatientName", "patient_name", "name", "Name", "Patient Name",
                       "patientFullName", "fullName">>,
    patientAge |-> <<"patientAge", "PatientAge", "age", "Age">>,
    patientGender |-> <<"patientGender", "PatientGender", "gender", "Gender", "patient_gender", "sex">>,
    patientPhone |-> <<"patientPhone", "PatientPhone", "phone", "Phone", "Patient Contact", "patient_phone",
                        "contactNumber", "mobile", "Contact No">>,
    patientAlternateContact |-> <<"patientAlternateContact", "Patient Alternate Contact", "alternateContact",
                                   "alternatePhone", "Patient Alternate Contact">>,
    patientEmail |-> <<"patientEmail", "PatientEmail", "email", "Email", "patient_email", "emailAddress",
                        "alternateEmail">>,
    patientId |-> <<"patientId", "PatientId", "patient_id", "Patient Id", "labPatientId">>,
    patientDesignation |-> <<"patientDesignation", "Patient Designation", "designation">>,
    countryCodeOfPatient |-> <<"countryCodeOfPatient", "country_code_of_patient", "patientCountryCode">>,
    doctorName |-> <<"doctorName", "DoctorName", "doctor_name", "physicianName", "referredBy",
                      "referredDoctor", "Billed Username", "Submitted Username">>,
    doctorSpecialty |-> <<"doctorSpecialty", "DoctorSpecialty", "specialty", "Specialty", "specialization",
                           "department", "Referral Type">>,
    referralContact |-> <<"referralContact", "Referral Contact", "referral_contact">>,
    referralEmail |-> <<"referralEmail", "Referral Email", "referral_email">>,
    referralAddress |-> <<"referralAddress", "Referral Address", "referral_address">>,
    referralCity |-> <<"referralCity", "Referral City", "referral_city">>,
    referralPincode |-> <<"referralPincode", "Referral pincode", "referral_pincode", "Referral Pincode">>,
    testName |-> <<"testName", "TestName", "test_name", "Test Name", "testType", "test_type">>,
    testCategory |-> <<"testCategory", "TestCategory", "category", "Category", "test_category", "labCategory">>,
    testCode |-> <<"testCode", "test_code", "testCode">>,
    labName |-> <<"labName", "lab_name", "labName">>,
    labId |-> <<"labId", "lab_id", "labId">>,
    labCity |-> <<"labCity", "lab_city", "labCity">>,
    orgName |-> <<"orgName", "Org Name", "organizationName">>,
    orgCode |-> <<"orgCode", "Org Code", "org_code">>,
    orgAddress |-> <<"orgAddress", "Org Address", "org_address">>,
    orgCity |-> <<"orgCity", "Org City", "org_city">>,
    orgArea |-> <<"orgArea", "Org Area", "org_area">>,
    orgContact |-> <<"orgContact", "Org Contact", "org_contact">>,
    orgEmail |-> <<"orgEmail", "Org email", "org_email">>,
    sampleDate |-> <<"sampleDate", "Sample Date", "sample_date">>,
    reportDate |-> <<"reportDate", "Report Date", "report_date", "reportDate">>,
    accessionDate |-> <<"accessionDate", "Accession Date", "accession_date">>,
    approvalDate |-> <<"approvalDate", "Approval Date", "approval_date">>,
    status |-> <<"status", "Status">>,
    billPaymentStatus |-> <<"billPaymentStatus", "bill_payment_status", "billPaymentStatus">>,
    billPaymentMode |-> <<"billPaymentMode", "bill_payment_mode", "billPaymentMode">> ]

\* key.toLowerCase() of the key names that contain an upper-case letter
KeyLowerTable ==
  <<<<"CentreReportId", "centrereportid">>, <<"centreReportId", "centrereportid">>,
    <<"reportId", "reportid">>, <<"ReportId", "reportid">>, <<"Report Id", "report id">>,
    <<"REPORT_ID", "report_id">>, <<"ID", "id">>, <<"reportBase64", "reportbase64">>,
    <<"ReportBase64", "reportbase64">>, <<"REPORT_BASE64", "report_base64">>,
    <<"pdfBase64", "pdfbase64">>, <<"PdfBase64", "pdfbase64">>,
    <<"PDF_BASE64", "pdf_base64">>, <<"Base64", "base64">>, <<"BASE64", "base64">>,
    <<"Data", "data">>, <<"billId", "billid">>, <<"BillId", "billid">>,
    <<"BILL_ID", "bill_id">>, <<"billNumber", "billnumber">>,
    <<"BillNumber", "billnumber">>, <<"testID", "testid">>, <<"testId", "testid">>,
    <<"TestId", "testid">>, <<"TEST_ID", "test_id">>, <<"testNumber", "testnumber">>,
    <<"TestNumber", "testnumber">>, <<"patientName", "patientname">>,
    <<"PatientName", "patientname">>, <<"Name", "name">>,
    <<"Patient Name", "patient name">>, <<"patientFullName", "patientfullname">>,
    <<"fullName", "fullname">>, <<"patientAge", "patientage">>,
    <<"PatientAge", "patientage">>, <<"Age", "age">>, <<"patientGender", "patientgender">>,
    <<"PatientGender", "patientgender">>, <<"Gender", "gender">>,
    <<"patientPhone", "patientphone">>, <<"PatientPhone", "patientphone">>,
    <<"Phone", "phone">>, <<"Patient Contact", "patient contact">>,
    <<"contactNumber", "contactnumber">>, <<"Contact No", "contact no">>,
    <<"patientAlternateContact", "patientalternatecontact">>,
    <<"Patient Alternate Contact", "patient alternate contact">>,
    <<"alternateContact", "alternatecontact">>, <<"alternatePhone", "alternatephone">>,
    <<"patientEmail", "patientemail">>, <<"PatientEmail", "patientemail">>,
    <<"Email", "email">>, <<"emailAddress", "emailaddress">>,
    <<"alternateEmail", "alternateemail">>, <<"patientId", "patientid">>,
    <<"PatientId", "patientid">>, <<"Patient Id", "patient id">>,
    <<"labPatientId", "labpatientid">>, <<"patientDesignation", "patientdesignation">>,
    <<"Patient Designation", "patient designation">>,
    <<"countryCodeOfPatient", "countrycodeofpatient">>,
    <<"patientCountryCode", "patientcountrycode">>, <<"doctorName", "doctorname">>,
    <<"DoctorName", "doctorname">>, <<"physicianName", "physicianname">>,
    <<"referredBy", "referredby">>, <<"referredDoctor", "referreddoctor">>,
    <<"Billed Username", "billed username">>,
    <<"Submitted Username", "submitted username">>,
    <<"doctorSpecialty", "doctorspecialty">>, <<"DoctorSpecialty", "doctorspecialty">>,
    <<"Specialty", "specialty">>, <<"Referral Type", "referral type">>,
    <<"referralContact", "referralcontact">>, <<"Referral Contact", "referral contact">>,
    <<"referralEmail", "referralemail">>, <<"Referral Email", "referral email">>,
    <<"referralAddress", "referraladdress">>, <<"Referral Address", "referral address">>,
    <<"referralCity", "referralcity">>, <<"Referral City", "referral city">>,
    <<"referralPincode", "referralpincode">>, <<"Referral pincode", "referral pincode">>,
    <<"Referral Pincode", "referral pincode">>, <<"testName", "testname">>,
    <<"TestName", "testname">>, <<"Test Name", "test name">>, <<"testType", "testtype">>,
    <<"testCategory", "testcategory">>, <<"TestCategory", "testcategory">>,
    <<"Category", "category">>, <<"labCategory", "labcategory">>,
    <<"testCode", "testcode">>, <<"labName", "labname">>, <<"labId", "labid">>,
    <<"labCity", "labcity">>, <<"orgName", "orgname">>, <<"Org Name", "org name">>,
    <<"organizationName", "organizationname">>, <<"orgCode", "orgcode">>,
    <<"Org Code", "org code">>, <<"orgAddress", "orgaddress">>,
    <<"Org Address", "org address">>, <<"orgCity", "orgcity">>, <<"Org City", "org city">>,
    <<"orgArea", "orgarea">>, <<"Org Area", "org area">>, <<"orgContact", "orgcontact">>,
    <<"Org Contact", "org contact">>, <<"orgEmail", "orgemail">>,
    <<"Org email", "org email">>, <<"sampleDate", "sampledate">>,
    <<"Sample Date", "sample date">>, <<"reportDate", "reportdate">>,
    <<"Report Date", "report date">>, <<"accessionDate", "accessiondate">>,
    <<"Accession Date", "accession date">>, <<"approvalDate", "approvaldate">>,
    <<"Approval Date", "approval date">>, <<"Status", "status">>,
    <<"billPaymentStatus", "billpaymentstatus">>, <<"billPaymentMode", "billpaymentmode">>>>

KeyLowerMap ==
  [k \in {KeyLowerTable[i][1] : i \in 1..Len(KeyLowerTable)} |->
     KeyLowerTable[CHOOSE i \in 1..Len(KeyLowerTable) : KeyLowerTable[i][1] = k][2]]

\* key.toLowerCase(); a key that is not in the table has no upper-case letter
KeyLower(k) == IF k \in DOMAIN KeyLowerMap THEN KeyLowerMap[k] ELSE k

\* a variant that settles each candidate in turn: its exact key, else its key
\* ignoring case, before the next candidate is looked at
findFieldByName(payload, possibleNames) ==
  LET foundKeys(i) == {k \in 1..Len(payload) :
                         KeyLower(payload[k][1]) = KeyLower(possibleNames[i])}
      found == {i \in 1..Len(possibleNames) : foundKeys(i) # {}}
  IN IF found = {} THEN Null
     ELSE IF HasOwn(payload, possibleNames[SetMin(found)])
       THEN cleanFieldValue(GetOwn(payload, possibleNames[SetMin(found)]))
     ELSE cleanFieldValue(payload[SetMin(foundKeys(SetMin(found)))][2])

findField(payload, possibleNames) ==
  LET exact == {i \in 1..Len(possibleNames) : HasOwn(payload, possibleNames[i])}
      foundKeys(i) == {k \in 1..Len(payload) :
                         KeyLower(payload[k][1]) = KeyLower(possibleNames[i])}
      insensitive == {i \in 1..Len(possibleNames) : foundKeys(i) # {}}
  IN IF exact # {}
       THEN cleanFieldValue(GetOwn(payload, possibleNames[SetMin(exact)]))
     ELSE IF insensitive # {}
       THEN cleanFieldValue(payload[SetMin(foundKeys(SetMin(insensitive)))][2])
     ELSE Null

extractPayloadFields(payload) ==
  [knownFields |-> [f \in DOMAIN Candidates |-> findField(payload, Candidates[f])],
   allFields |-> payload]

\* the first contiguous run of digits of s, or <<>>
RECURSIVE DigitRun(_)
DigitRun(s) == IF s # <<>> /\ Head(s) \in Digits THEN <<Head(s)>> \o DigitRun(Tail(s)) ELSE <<>>

RECURSIVE FirstDigitRun(_)
FirstDigitRun(s) ==
  IF s = <<>> THEN <<>>
  ELSE IF Head(s) \in Digits THEN DigitRun(s)
  ELSE FirstDigitRun(Tail(s))

DigitValue(c) == CHOOSE d \in 0..9 : Digit(d) = c

\* parseInt(digits, 10) of a non-empty run of digits
RECURSIVE ParseDigits(_)
ParseDigits(s) ==
  IF s = <<>> THEN 0 ELSE 10 * ParseDigits(SubSeq(s, 1, Len(s) - 1)) + DigitValue(s[Len(s)])

parseAge(ageValue) ==
  IF ~Truthy(ageValue) THEN Null
  ELSE IF IsNum(ageValue) THEN ageValue
  ELSE IF IsStr(ageValue) /\ FirstDigitRun(ageValue.v) # <<>>
    THEN Num(ParseDigits(FirstDigitRun(ageValue.v)))
  ELSE Null

\* [^\s@]+
NoSpaceNoAt(s) == s # <<>> /\ \A i \in 1..Len(s) : ~IsSpace(s[i]) /\ s[i] # "@"

\* /^[^\s@]+@[^\s@]+\.[^\s@]+$/.test(email.trim())
isValidEmail(email) ==
  /\ Truthy(email)
  /\ IsStr(email)
  /\ LET s == trim(email.v)
     IN \E i \in 1..Len(s) : \E j \in 1..Len(s) :
          /\ i < j
          /\ s[i] = "@"
          /\ s[j] = "."
          /\ NoSpaceNoAt(SubSeq(s, 1, i - 1))
          /\ NoSpaceNoAt(SubSeq(s, i + 1, j - 1))
          /\ NoSpaceNoAt(SubSeq(s, j + 1, Len(s)))

CrelioLocal == <<"@", "c", "r", "e", "l", "i", "o", ".", "l", "o", "c", "a", "l">>

\* s.replace(/\s+/g, '.')
RECURSIVE SpacesToDot(_)
SpacesToDot(s) ==
  IF s = <<>> THEN <<>>
  ELSE IF IsSpace(Head(s)) THEN <<".">> \o SpacesToDot(TrimStart(s))
  ELSE <<Head(s)>> \o SpacesToDot(Tail(s))

IsSlugChar(c) == c = "." \/ c \in Digits \/ \E i \in 1..26 : LowerLetters[i] = c

generateDoctorEmail(doctorName, now) ==
  IF ~Truthy(doctorName)
    THEN Str(<<"d", "o", "c", "t", "o", "r", "-">> \o NatToChars(now) \o CrelioLocal)
    ELSE LET emailName == substring(SelectSeq(SpacesToDot(toLowerCase(doctorName.v)), IsSlugChar), 0, 50)
         IN Str(emailName \o CrelioLocal)

DefaultDoctorPhone == <<"+", "9", "1", "-", "0", "0", "0", "0", "0", "0", "0", "0", "0", "0">>

generateDoctorPhone == Str(DefaultDoctorPhone)

(***************************************************************************)
(* Status / Specialty Normalizer (webhookController.js)                    *)
(***************************************************************************)
\* the members of the status and specialty enumerations that the tables name
sReportGenerated == <<"R", "e", "p", "o", "r", "t", " ", "G", "e", "n", "e", "r", "a", "t", "e", "d">>

sRegistered == <<"R", "e", "g", "i", "s", "t", "e", "r", "e", "d">>

sLabTestScheduled == <<"L", "a", "b", " ", "T", "e", "s", "t", " ", "S", "c", "h", "e", "d", "u", "l", "e", "d">>

sSampleCollected == <<"S", "a", "m", "p", "l", "e", " ", "C", "o", "l", "l", "e", "c", "t", "e", "d">>

sUnderReview == <<"U", "n", "d", "e", "r", " ", "R", "e", "v", "i", "e", "w">>

sReportDelivered == <<"R", "e", "p", "o", "r", "t", " ", "D", "e", "l", "i", "v", "e", "r", "e", "d">>

sCompleted == <<"C", "o", "m", "p", "l", "e", "t", "e", "d">>

sOnHold == <<"O", "n", " ", "H", "o", "l", "d">>

sCancelled == <<"C", "a", "n", "c", "e", "l", "l", "e", "d">>

sPending == <<"P", "e", "n", "d", "i", "n", "g">>

sUnderAnalysis == <<"U", "n", "d", "e", "r", " ", "A", "n", "a", "l", "y", "s", "i", "s">>

sReviewed == <<"R", "e", "v", "i", "e", "w", "e", "d">>

sDelivered == <<"D", "e", "l", "i", "v", "e", "r", "e", "d">>

sArchived == <<"A", "r", "c", "h", "i", "v", "e", "d">>

sGeneralPractitioner == <<"G", "e", "n", "e", "r", "a", "l", " ", "P", "r", "a", "c", "t", "i", "t", "i", "o", "n", "e", "r">>

sCardiologist == <<"C", "a", "r", "d", "i", "o", "l", "o", "g", "i", "s", "t">>

sDermatologist == <<"D", "e", "r", "m", "a", "t", "o", "l", "o", "g", "i", "s", "t">>

sDentist == <<"D", "e", "n", "t", "i", "s", "t">>

sOculist == <<"O", "c", "u", "l", "i", "s", "t">>

sSurgeon == <<"S", "u", "r", "g", "e", "o", "n">>

sPhysician == <<"P", "h", "y", "s", "i", "c", "i", "a", "n">>

sGynecologist == <<"G", "y", "n", "e", "c", "o", "l", "o", "g", "i", "s", "t">>

sNeurologist == <<"N", "e", "u", "r", "o", "l", "o", "g", "i", "s", "t">>

sOncologist == <<"O", "n", "c", "o", "l", "o", "g", "i", "s", "t">>

sOrthopedist == <<"O", "r", "t", "h", "o", "p", "e", "d", "i", "s", "t">>

sPhysiotherapist == <<"P", "h", "y", "s", "i", "o", "t", "h", "e", "r", "a", "p", "i", "s", "t">>

sAnesthesiologist == <<"A", "n", "e", "s", "t", "h", "e", "s", "i", "o", "l", "o", "g", "i", "s", "t">>

sOther == <<"O", "t", "h", "e", "r">>

\* statusMap of PatientStatus: the exact-phrase table, in source order
PatientStatusMap ==
  <<<<<<"r", "e", "p", "o", "r", "t", " ", "p", "d", "f", " ", "(", "w", "e", "b", "h", "o", "o", "k", ")">>, sReportGenerated>>,
    <<<<"r", "e", "p", "o", "r", "t", " ", "p", "d", "f">>, sReportGenerated>>,
    <<<<"r", "e", "p", "o", "r", "t", " ", "g", "e", "n", "e", "r", "a", "t", "e", "d">>, sReportGenerated>>,
    <<<<"p", "d", "f", " ", "g", "e", "n", "e", "r", "a", "t", "e", "d">>, sReportGenerated>>,
    <<<<"w", "e", "b", "h", "o", "o", "k">>, sReportGenerated>>,
    <<<<"r", "e", "g", "i", "s", "t", "e", "r", "e", "d">>, sRegistered>>,
    <<<<"r", "e", "g", "i", "s", "t", "r", "a", "t", "i", "o", "n">>, sRegistered>>,
    <<<<"n", "e", "w">>, sRegistered>>,
    <<<<"l", "a", "b", " ", "t", "e", "s", "t", " ", "s", "c", "h", "e", "d", "u", "l", "e", "d">>, sLabTestScheduled>>,
    <<<<"t", "e", "s", "t", " ", "s", "c", "h", "e", "d", "u", "l", "e", "d">>, sLabTestScheduled>>,
    <<<<"s", "c", "h", "e", "d", "u", "l", "e", "d">>, sLabTestScheduled>>,
    <<<<"s", "a", "m", "p", "l", "e", " ", "c", "o", "l", "l", "e", "c", "t", "e", "d">>, sSampleCollected>>,
    <<<<"c", "o", "l", "l", "e", "c", "t", "e", "d">>, sSampleCollected>>,
    <<<<"s", "a", "m", "p", "l", "e", " ", "t", "a", "k", "e", "n">>, sSampleCollected>>,
    <<<<"u", "n", "d", "e", "r", " ", "r", "e", "v", "i", "e", "w">>, sUnderReview>>,
    <<<<"r", "e", "v", "i", "e", "w", "i", "n", "g">>, sUnderReview>>,
    <<<<"i", "n", " ", "r", "e", "v", "i", "e", "w">>, sUnderReview>>,
    <<<<"r", "e", "v", "i", "e", "w">>, sUnderReview>>,
    <<<<"r", "e", "p", "o", "r", "t", " ", "d", "e", "l", "i", "v", "e", "r", "e", "d">>, sReportDelivered>>,
    <<<<"d", "e", "l", "i", "v", "e", "r", "e", "d">>, sReportDelivered>>,
    <<<<"s", "e", "n", "t">>, sReportDelivered>>,
    <<<<"c", "o", "m", "p", "l", "e", "t", "e", "d">>, sCompleted>>,
    <<<<"d", "o", "n", "e">>, sCompleted>>,
    <<<<"f", "i", "n", "i", "s", "h", "e", "d">>, sCompleted>>,
    <<<<"o", "n", " ", "h", "o", "l", "d">>, sOnHold>>,
    <<<<"h", "o", "l", "d">>, sOnHold>>,
    <<<<"p", "a", "u", "s", "e", "d">>, sOnHold>>,
    <<<<"c", "a", "n", "c", "e", "l", "l", "e", "d">>, sCancelled>>,
    <<<<"c", "a", "n", "c", "e", "l", "e", "d">>, sCancelled>>,
    <<<<"c", "a", "n", "c", "e", "l", "l", "e", "d">>, sCancelled>>>>

\* the keyword scan of PatientStatus: substrings and target, in priority order
PatientStatusKeywords ==
  <<<<<<<<"r", "e", "p", "o", "r", "t">>, <<"p", "d", "f">>, <<"w", "e", "b", "h", "o", "o", "k">>>>, sReportGenerated>>,
    <<<<<<"d", "e", "l", "i", "v", "e", "r", "e", "d">>, <<"s", "e", "n", "t">>>>, sReportDelivered>>,
    <<<<<<"c", "o", "m", "p", "l", "e", "t", "e", "d">>, <<"d", "o", "n", "e">>>>, sCompleted>>,
    <<<<<<"h", "o", "l", "d">>, <<"p", "a", "u", "s", "e">>>>, sOnHold>>,
    <<<<<<"c", "a", "n", "c", "e", "l">>>>, sCancelled>>>>

PatientStatusDefault == Str(sReportGenerated)

\* statusMap of ReportStatus: the exact-phrase table, in source order
ReportStatusMap ==
  <<<<<<"r", "e", "p", "o", "r", "t", " ", "p", "d", "f", " ", "(", "w", "e", "b", "h", "o", "o", "k", ")">>, sReportGenerated>>,
    <<<<"r", "e", "p", "o", "r", "t", " ", "p", "d", "f">>, sReportGenerated>>,
    <<<<"r", "e", "p", "o", "r", "t", " ", "g", "e", "n", "e", "r", "a", "t", "e", "d">>, sReportGenerated>>,
    <<<<"p", "d", "f", " ", "g", "e", "n", "e", "r", "a", "t", "e", "d">>, sReportGenerated>>,
    <<<<"w", "e", "b", "h", "o", "o", "k">>, sReportGenerated>>,
    <<<<"p", "e", "n", "d", "i", "n", "g">>, sPending>>,
    <<<<"w", "a", "i", "t", "i", "n", "g">>, sPending>>,
    <<<<"s", "a", "m", "p", "l", "e", " ", "c", "o", "l", "l", "e", "c", "t", "e", "d">>, sSampleCollected>>,
    <<<<"c", "o", "l", "l", "e", "c", "t", "e", "d">>, sSampleCollected>>,
    <<<<"s", "a", "m", "p", "l", "e", " ", "t", "a", "k", "e", "n">>, sSampleCollected>>,
    <<<<"u", "n", "d", "e", "r", " ", "a", "n", "a", "l", "y", "s", "i", "s">>, sUnderAnalysis>>,
    <<<<"a", "n", "a", "l", "y", "z", "i", "n", "g">>, sUnderAnalysis>>,
    <<<<"i", "n", " ", "a", "n", "a", "l", "y", "s", "i", "s">>, sUnderAnalysis>>,
    <<<<"a", "n", "a", "l", "y", "s", "i", "s">>, sUnderAnalysis>>,
    <<<<"u", "n", "d", "e", "r", " ", "r", "e", "v", "i", "e", "w">>, sUnderAnalysis>>,
    <<<<"r", "e", "v", "i", "e", "w", "e", "d">>, sReviewed>>,
    <<<<"r", "e", "v", "i", "e", "w">>, sReviewed>>,
    <<<<"a", "p", "p", "r", "o", "v", "e", "d">>, sReviewed>>,
    <<<<"d", "e", "l", "i", "v", "e", "r", "e", "d">>, sDelivered>>,
    <<<<"s", "e", "n", "t">>, sDelivered>>,
    <<<<"r", "e", "p", "o", "r", "t", " ", "d", "e", "l", "i", "v", "e", "r", "e", "d">>, sDelivered>>,
    <<<<"a", "r", "c", "h", "i", "v", "e", "d">>, sArchived>>,
    <<<<"a", "r", "c", "h", "i", "v", "e">>, sArchived>>>>

\* the keyword scan of ReportStatus: substrings and target, in priority order
ReportStatusKeywords ==
  <<<<<<<<"r", "e", "p", "o", "r", "t">>, <<"p", "d", "f">>, <<"w", "e", "b", "h", "o", "o", "k">>>>, sReportGenerated>>,
    <<<<<<"d", "e", "l", "i", "v", "e", "r", "e", "d">>, <<"s", "e", "n", "t">>>>, sDelivered>>,
    <<<<<<"r", "e", "v", "i", "e", "w", "e", "d">>, <<"a", "p", "p", "r", "o", "v", "e", "d">>>>, sReviewed>>,
    <<<<<<"a", "n", "a", "l", "y", "s", "i", "s">>, <<"a", "n", "a", "l", "y", "z", "i", "n", "g">>>>, sUnderAnalysis>>,
    <<<<<<"a", "r", "c", "h", "i", "v", "e", "d">>>>, sArchived>>>>

ReportStatusDefault == Str(sReportGenerated)

\* specialtyMap of Specialty: the exact-phrase table, in source order
SpecialtyMap ==
  <<<<<<"n", "o", "n", "e", " ", "(", "d", "e", "f", "a", "u", "l", "t", ")">>, sGeneralPractitioner>>,
    <<<<"n", "o", "n", "e">>, sGeneralPractitioner>>,
    <<<<"d", "e", "f", "a", "u", "l", "t">>, sGeneralPractitioner>>,
    <<<<"g", "e", "n", "e", "r", "a", "l", " ", "p", "r", "a", "c", "t", "i", "t", "i", "o", "n", "e", "r">>, sGeneralPractitioner>>,
    <<<<"g", "e", "n", "e", "r", "a", "l">>, sGeneralPractitioner>>,
    <<<<"g", "p">>, sGeneralPractitioner>>,
    <<<<"f", "a", "m", "i", "l", "y", " ", "d", "o", "c", "t", "o", "r">>, sGeneralPractitioner>>,
    <<<<"c", "a", "r", "d", "i", "o", "l", "o", "g", "i", "s", "t">>, sCardiologist>>,
    <<<<"c", "a", "r", "d", "i", "o", "l", "o", "g", "y">>, sCardiologist>>,
    <<<<"h", "e", "a", "r", "t", " ", "s", "p", "e", "c", "i", "a", "l", "i", "s", "t">>, sCardiologist>>,
    <<<<"d", "e", "r", "m", "a", "t", "o", "l", "o", "g", "i", "s", "t">>, sDermatologist>>,
    <<<<"d", "e", "r", "m", "a", "t", "o", "l", "o", "g", "y">>, sDermatologist>>,
    <<<<"s", "k", "i", "n", " ", "s", "p", "e", "c", "i", "a", "l", "i", "s", "t">>, sDermatologist>>,
    <<<<"d", "e", "n", "t", "i", "s", "t">>, sDentist>>,
    <<<<"d", "e", "n", "t", "a", "l">>, sDentist>>,
    <<<<"o", "r", "a", "l", " ", "s", "u", "r", "g", "e", "o", "n">>, sDentist>>,
    <<<<"o", "c", "u", "l", "i", "s", "t">>, sOculist>>,
    <<<<"o", "p", "h", "t", "h", "a", "l", "m", "o", "l", "o", "g", "i", "s", "t">>, sOculist>>,
    <<<<"e", "y", "e", " ", "s", "p", "e", "c", "i", "a", "l", "i", "s", "t">>, sOculist>>,
    <<<<"e", "y", "e", " ", "d", "o", "c", "t", "o", "r">>, sOculist>>,
    <<<<"s", "u", "r", "g", "e", "o", "n">>, sSurgeon>>,
    <<<<"s", "u", "r", "g", "e", "r", "y">>, sSurgeon>>,
    <<<<"g", "e", "n", "e", "r", "a", "l", " ", "s", "u", "r", "g", "e", "o", "n">>, sSurgeon>>,
    <<<<"p", "h", "y", "s", "i", "c", "i", "a", "n">>, sPhysician>>,
    <<<<"i", "n", "t", "e", "r", "n", "a", "l", " ", "m", "e", "d", "i", "c", "i", "n", "e">>, sPhysician>>,
    <<<<"g", "y", "n", "e", "c", "o", "l", "o", "g", "i", "s", "t">>, sGynecologist>>,
    <<<<"g", "y", "n", "e", "c", "o", "l", "o", "g", "y">>, sGynecologist>>,
    <<<<"o", "b", "g", "y", "n">>, sGynecologist>>,
    <<<<"n", "e", "u", "r", "o", "l", "o", "g", "i", "s", "t">>, sNeurologist>>,
    <<<<"n", "e", "u", "r", "o", "l", "o", "g", "y">>, sNeurologist>>,
    <<<<"o", "n", "c", "o", "l", "o", "g", "i", "s", "t">>, sOncologist>>,
    <<<<"o", "n", "c", "o", "l", "o", "g", "y">>, sOncologist>>,
    <<<<"c", "a", "n", "c", "e", "r", " ", "s", "p", "e", "c", "i", "a", "l", "i", "s", "t">>, sOncologist>>,
    <<<<"o", "r", "t", "h", "o", "p", "e", "d", "i", "s", "t">>, sOrthopedist>>,
    <<<<"o", "r", "t", "h", "o", "p", "e", "d", "i", "c">>, sOrthopedist>>,
    <<<<"o", "r", "t", "h", "o", "p", "e", "d", "i", "c", " ", "s", "u", "r", "g", "e", "o", "n">>, sOrthopedist>>,
    <<<<"p", "h", "y", "s", "i", "o", "t", "h", "e", "r", "a", "p", "i", "s", "t">>, sPhysiotherapist>>,
    <<<<"p", "h", "y", "s", "i", "c", "a", "l", " ", "t", "h", "e", "r", "a", "p", "i", "s", "t">>, sPhysiotherapist>>,
    <<<<"p", "h", "y", "s", "i", "o", "t", "h", "e", "r", "a", "p", "y">>, sPhysiotherapist>>,
    <<<<"a", "n", "e", "s", "t", "h", "e", "s", "i", "o", "l", "o", "g", "i", "s", "t">>, sAnesthesiologist>>,
    <<<<"a", "n", "e", "s", "t", "h", "e", "s", "i", "a">>, sAnesthesiologist>>,
    <<<<"o", "t", "h", "e", "r">>, sOther>>>>

\* the keyword scan of Specialty: substrings and target, in priority order
SpecialtyKeywords ==
  <<<<<<<<"c", "a", "r", "d", "i", "o">>, <<"h", "e", "a", "r", "t">>>>, sCardiologist>>,
    <<<<<<"d", "e", "r", "m", "a">>, <<"s", "k", "i", "n">>>>, sDermatologist>>,
    <<<<<<"d", "e", "n", "t", "a", "l">>, <<"t", "o", "o", "t", "h">>>>, sDentist>>,
    <<<<<<"e", "y", "e">>, <<"o", "p", "h", "t", "h", "a", "l">>>>, sOculist>>,
    <<<<<<"s", "u", "r", "g">>>>, sSurgeon>>,
    <<<<<<"g", "y", "n", "e">>, <<"o", "b", "g">>>>, sGynecologist>>,
    <<<<<<"n", "e", "u", "r", "o">>>>, sNeurologist>>,
    <<<<<<"o", "n", "c", "o">>, <<"c", "a", "n", "c", "e", "r">>>>, sOncologist>>,
    <<<<<<"o", "r", "t", "h", "o">>>>, sOrthopedist>>,
    <<<<<<"p", "h", "y", "s", "i", "o">>, <<"p", "h", "y", "s", "i", "c", "a", "l", " ", "t", "h", "e", "r", "a", "p", "y">>>>, sPhysiotherapist>>,
    <<<<<<"a", "n", "e", "s", "t", "h">>>>, sAnesthesiologist>>>>

SpecialtyDefault == Str(sGeneralPractitioner)

\* the properties every object literal inherits whose names are lower case
sConstructor == <<"c", "o", "n", "s", "t", "r", "u", "c", "t", "o", "r">>

sProto == <<"_", "_", "p", "r", "o", "t", "o", "_", "_">>

\* map[key] of an object literal: an own property (the last definition of a
\* repeated key), an inherited property, or undefined
ObjectLookup(map, key) ==
  LET hits == {i \in 1..Len(map) : map[i][1] = key}
  IN IF hits # {} THEN Str(map[SetMax(hits)][2])
     ELSE IF key = sConstructor THEN [t |-> "function"]
     ELSE IF key = sProto THEN [t |-> "object"]
     ELSE Null

\* the target of the first keyword group one of whose substrings lower contains
KeywordScan(keywords, lower, default) ==
  LET hits == {i \in 1..Len(keywords) :
                 \E m \in 1..Len(keywords[i][1]) : includes(lower, keywords[i][1][m])}
  IN IF hits # {} THEN Str(keywords[SetMin(hits)][2]) ELSE default

\* a variant that scans for the keywords before it looks the phrase up
normalizePatientStatusScanFirst(statusValue) ==
  IF ~Truthy(statusValue) \/ ~IsStr(statusValue) THEN PatientStatusDefault
  ELSE LET statusLower == toLowerCase(statusValue.v)
       IN IF KeywordScan(PatientStatusKeywords, statusLower, Null) # Null
            THEN KeywordScan(PatientStatusKeywords, statusLower, Null)
          ELSE IF Truthy(ObjectLookup(PatientStatusMap, statusLower))
            THEN ObjectLookup(PatientStatusMap, statusLower)
          ELSE PatientStatusDefault

normalizePatientStatus(statusValue) ==
  IF ~Truthy(statusValue) \/ ~IsStr(statusValue) THEN PatientStatusDefault
  ELSE LET statusLower == toLowerCase(statusValue.v)
       IN IF Truthy(ObjectLookup(PatientStatusMap, statusLower))
            THEN ObjectLookup(PatientStatusMap, statusLower)
            ELSE KeywordScan(PatientStatusKeywords, statusLower, PatientStatusDefault)

normalizeReportStatus(statusValue) ==
  IF ~Truthy(statusValue) \/ ~IsStr(statusValue) THEN ReportStatusDefault
  ELSE LET statusLower == toLowerCase(statusValue.v)
       IN IF Truthy(ObjectLookup(ReportStatusMap, statusLower))
            THEN ObjectLookup(ReportStatusMap, statusLower)
            ELSE KeywordScan(ReportStatusKeywords, statusLower, ReportStatusDefault)

normalizeSpecialty(specialtyValue) ==
  IF ~Truthy(specialtyValue) \/ ~IsStr(specialtyValue) THEN SpecialtyDefault
  ELSE LET specialtyLower == toLowerCase(specialtyValue.v)
       IN IF Truthy(ObjectLookup(SpecialtyMap, specialtyLower))
            THEN ObjectLookup(SpecialtyMap, specialtyLower)
            ELSE KeywordScan(SpecialtyKeywords, specialtyLower, SpecialtyDefault)

(***************************************************************************)
(* Document store.  A collection is the sequence of its documents in       *)
(* insertion order; the _id of a document is its position; a document is a *)
(* function from path names to JavaScript values.  Nothing is ever deleted.*)
(***************************************************************************)
VARIABLES
  patients,              \* Patient collection
  doctors,               \* Doctor collection
  labs,                  \* Lab collection
  reports,               \* Report collection
  requestDumps,          \* RequestDump collection (bill-generate payloads)
  reportStatusTrackers,  \* ReportStatusTracker collection
  sampleStatusTrackers,  \* SampleStatusTracker collection
  files,                 \* the PDF writes to ./reports, in order: the reportId of each
  emails,                \* number of alert e-mails dispatched
  now,                   \* the clock read by Date.now() and new Date()
  calls,                 \* requests and runs issued so far
  procs,                 \* the in-flight handleWebhook requests: position and locals
  log,                   \* the answered requests and finished runs, in order
  merged,                \* the record mergePatientData accumulates for one patient
  call,                  \* the last call of a helper function: arguments and result
  immediates             \* the setImmediate queue: the consolidations scheduled and not yet run

vars == <<patients, doctors, labs, reports, requestDumps, reportStatusTrackers,
          sampleStatusTrackers, files, emails, now, calls, procs, log, merged, call, immediates>>

\* the variables of the helper functions checked on their own
locals == <<merged, call, immediates>>

\* no helper function has been called
NoCall == [op |-> "none"]

store == <<patients, doctors, labs, reports, requestDumps, reportStatusTrackers,
           sampleStatusTrackers, files, emails>>

DateValue(n) == [t |-> "date", v |-> n]

InvalidDate == [t |-> "date", v |-> -1]

Id(i) == [t |-> "id", v |-> i]

Arr(s) == [t |-> "array", v |-> s]

Obj(o) == [t |-> "object", v |-> o]

CastError == [t |-> "castError"]

NoDoc == <<>>

\* doc[path], undefined read as null
Get(doc, path) == IF path \in DOMAIN doc THEN doc[path] ELSE Null

\* the position of the first document that satisfies Filter, or 0 (findOne)
FindOne(coll, Filter(_)) ==
  IF \E i \in 1..Len(coll) : Filter(coll[i])
    THEN SetMin({i \in 1..Len(coll) : Filter(coll[i])})
    ELSE 0

\* countDocuments
CountDocuments(coll, Filter(_)) == Cardinality({i \in 1..Len(coll) : Filter(coll[i])})

\* a collection without unique indexes
DuplicateKeyNever(coll, path, value, self) == FALSE

\* a unique index on path rejects value (other than through document self)
DuplicateKey(coll, path, value, self) ==
  \E i \in 1..Len(coll) : i # self /\ path \in DOMAIN coll[i] /\ coll[i][path] = value

\* doc.save() of a loaded document: the modified paths are written
SaveModified(stored, loaded, updated) ==
  [path \in DOMAIN stored \cup DOMAIN updated |->
     IF Get(updated, path) # Get(loaded, path) THEN Get(updated, path) ELSE Get(stored, path)]

(***************************************************************************)
(* Schemas: casting and validation (models/Patient.js, Doctor.js, Lab.js,  *)
(* the Report model with the unique reportId)                              *)
(***************************************************************************)
sMale == <<"M", "a", "l", "e">>

sFemale == <<"F", "e", "m", "a", "l", "e">>

sNotSpecified == <<"N", "o", "t", " ", "S", "p", "e", "c", "i", "f", "i", "e", "d">>

sUnknownPatient == <<"U", "n", "k", "n", "o", "w", "n", " ", "P", "a", "t", "i", "e", "n", "t">>

sUnknownLab == <<"U", "n", "k", "n", "o", "w", "n", " ", "L", "a", "b">>

sLabTest == <<"L", "a", "b", " ", "T", "e", "s", "t">>

sActive == <<"A", "c", "t", "i", "v", "e">>

sRegistration == <<"R", "e", "g", "i", "s", "t", "r", "a", "t", "i", "o", "n">>

PatientStatusEnum ==
  {sRegistered, sLabTestScheduled, sSampleCollected, sUnderReview, sReportGenerated, sReportDelivered, sCompleted, sOnHold, sCancelled}

GenderEnum ==
  {sMale, sFemale, sOther, sNotSpecified}

ReportStatusEnum ==
  {sPending, sSampleCollected, sUnderAnalysis, sReportGenerated, sReviewed, sDelivered, sArchived}

SpecialtyEnum ==
  {sGeneralPractitioner, sCardiologist, sDermatologist, sDentist, sOculist, sSurgeon, sPhysician, sGynecologist, sNeurologist, sOncologist, sOrthopedist, sPhysiotherapist, sAnesthesiologist, sOther}

\* SchemaString cast
CastString(x) ==
  IF IsNull(x) THEN Null
  ELSE IF IsStr(x) \/ IsNum(x) THEN Str(StringOf(x))
  ELSE CastError

\* SchemaString with trim: true
CastTrim(x) == IF IsStr(CastString(x)) THEN Str(trim(CastString(x).v)) ELSE CastString(x)

\* SchemaString with trim: true, lowercase: true
CastLower(x) == IF IsStr(CastTrim(x)) THEN Str(toLowerCase(CastTrim(x).v)) ELSE CastTrim(x)

AllDigits(s) == s # <<>> /\ \A i \in 1..Len(s) : s[i] \in Digits

\* SchemaNumber cast
CastNumber(x) ==
  IF IsNull(x) \/ IsNum(x) THEN x
  ELSE IF IsStr(x) /\ trim(x.v) = <<>> THEN Null
  ELSE IF IsStr(x) /\ AllDigits(trim(x.v)) THEN Num(ParseDigits(trim(x.v)))
  ELSE CastError

\* /^\S+@\S+\.\S+$/
NoSpace(s) == s # <<>> /\ \A i \in 1..Len(s) : ~IsSpace(s[i])

EmailMatch(s) ==
  \E i \in 1..Len(s) : \E j \in 1..Len(s) :
    /\ i < j
    /\ s[i] = "@"
    /\ s[j] = "."
    /\ NoSpace(SubSeq(s, 1, i - 1))
    /\ NoSpace(SubSeq(s, i + 1, j - 1))
    /\ NoSpace(SubSeq(s, j + 1, Len(s)))

PatientTrimPaths ==
  {"patientId", "labPatientId", "name", "designation", "dateOfBirthString", "phone",
   "alternateContact", "alternateEmail", "countryCode", "medicalHistory", "ssnNumber",
   "passportNumber", "ethnicity", "race", "billPaymentMode", "billComments", "billReferral",
   "orderNumber", "sampleId", "testName", "testCode", "departmentName", "reportStatus",
   "labName", "orgName", "orgCode", "orgType", "orgEmail", "orgContact", "orgAddress",
   "orgCity", "orgArea", "referralType", "referralContact", "referralEmail",
   "referralAddress", "referralCity", "referralPincode", "referralRegNo", "referralComments"}

PatientStringPaths ==
  {"gender", "bloodGroup", "status", "currentStage", "billId", "testId", "reportId",
   "reportBase64"}

PatientNumberPaths ==
  {"patientIdNumber", "age", "billIdNumber", "billTotalAmount", "dueAmount", "billAdvance",
   "billConcession", "billPaymentStatus", "testIdNumber", "reportIdNumber", "labReportId",
   "fileInputReport", "isProfile", "profileID", "labId", "orgId", "referralId"}

PatientDatePaths ==
  {"dateOfBirth", "billTime", "sampleDate", "accessionDate", "reportDate", "approvalDate",
   "lastVisitDate", "registrationDate"}

PatientArrayPaths == {"signingDoctor", "fileAttachments", "reportFormatAndValues", "labReports"}

\* the paths of the Patient schema; a strict schema stores no other path
PatientPaths ==
  PatientTrimPaths \cup PatientStringPaths \cup PatientNumberPaths \cup PatientDatePaths
  \cup PatientArrayPaths
  \cup {"email", "address", "assignedDoctor", "webhookMetadata", "integrationPayload"}

CastAddress(x) ==
  IF x.t = "object" THEN Obj([k \in DOMAIN x.v |-> CastString(x.v[k])]) ELSE x

\* SchemaDate cast
CastDate(x) ==
  IF IsNull(x) THEN Null
  ELSE IF x.t = "date" THEN (IF x.v < 0 THEN CastError ELSE x)
  ELSE IF IsNum(x) THEN [t |-> "date", v |-> x.v]
  ELSE IF IsStr(x) /\ Len(x.v) = 4 /\ AllDigits(x.v) THEN [t |-> "date", v |-> ParseDigits(x.v)]
  ELSE CastError

\* an array path wraps a value that is no array
CastArray(x) == IF IsNull(x) \/ x.t = "array" THEN x ELSE [t |-> "array", v |-> <<x>>]

\* the values of data as the Patient schema stores them
CastPatient(data) ==
  [path \in DOMAIN data \cap PatientPaths |->
     IF path \in PatientTrimPaths THEN CastTrim(data[path])
     ELSE IF path \in PatientStringPaths THEN CastString(data[path])
     ELSE IF path \in PatientNumberPaths THEN CastNumber(data[path])
     ELSE IF path \in PatientDatePaths THEN CastDate(data[path])
     ELSE IF path \in PatientArrayPaths THEN CastArray(data[path])
     ELSE IF path = "email" THEN CastLower(data[path])
     ELSE IF path = "address" THEN CastAddress(data[path])
     ELSE data[path]]

\* a Patient document fails validation
PatientInvalid(doc) ==
  \/ \E path \in DOMAIN doc : doc[path] = CastError
  \/ ~Truthy(Get(doc, "patientId"))
  \/ ~Truthy(Get(doc, "name"))
  \/ ~IsNull(Get(doc, "gender")) /\ Get(doc, "gender").v \notin GenderEnum
  \/ ~IsNull(Get(doc, "age")) /\ (Get(doc, "age").v < 0 \/ Get(doc, "age").v > 150)
  \/ ~IsNull(Get(doc, "status")) /\ Get(doc, "status").v \notin PatientStatusEnum
  \/ ~IsNull(Get(doc, "email")) /\ ~EmailMatch(Get(doc, "email").v)

\* the schema defaults of a new Patient
PatientDefaults ==
  [gender |-> Str(sNotSpecified), status |-> Str(sRegistered), currentStage |-> Str(sRegistration),
   assignedDoctor |-> Null, labReports |-> Arr(<<>>)]

\* defaults fill the paths that are undefined
WithDefaults(data, defaults) == data @@ defaults

CastDoctor(data) ==
  [path \in DOMAIN data |->
     IF path \in {"doctorId", "name", "phone", "specialty"} THEN CastTrim(data[path])
     ELSE IF path = "email" THEN CastLower(data[path])
     ELSE data[path]]

DoctorInvalid(doc) ==
  \/ \E path \in DOMAIN doc : doc[path] = CastError
  \/ \E path \in {"doctorId", "name", "email", "phone", "specialty"} : ~Truthy(Get(doc, path))
  \/ ~EmailMatch(Get(doc, "email").v)
  \/ Get(doc, "specialty").v \notin SpecialtyEnum

DoctorDefaults == [specialty |-> SpecialtyDefault, status |-> Str(sActive), patientCount |-> Num(0)]

CastLab(data) ==
  [path \in DOMAIN data |->
     IF path \in {"labId", "labName", "phone"} THEN CastTrim(data[path])
     ELSE IF path = "email" THEN CastLower(data[path])
     ELSE IF path = "address" THEN CastAddress(data[path])
     ELSE data[path]]

LabInvalid(doc) ==
  \/ \E path \in DOMAIN doc : doc[path] = CastError
  \/ ~Truthy(Get(doc, "labId"))
  \/ ~Truthy(Get(doc, "labName"))
  \/ ~IsNull(Get(doc, "email")) /\ ~EmailMatch(Get(doc, "email").v)

CastReport(data) ==
  [path \in DOMAIN data |->
     IF path \in {"reportId", "billId", "testId", "pdfPath", "fileName", "testName", "testType",
                  "testCategory"} THEN CastTrim(data[path])
     ELSE IF path \in {"reportBase64", "status"} THEN CastString(data[path])
     ELSE data[path]]

ReportInvalid(doc) ==
  \/ \E path \in DOMAIN doc : doc[path] = CastError
  \/ ~Truthy(Get(doc, "reportId"))
  \/ IsNull(Get(doc, "patient"))
  \/ ~IsNull(Get(doc, "status")) /\ Get(doc, "status").v \notin ReportStatusEnum

(***************************************************************************)
(* handleWebhook (webhookController.js): one request is a process whose    *)
(* steps are the stretches of code between two awaits.                     *)
(***************************************************************************)
Procs == {1, 2}

\* process.env.WEBHOOK_SECRET
WebhookSecret == <<"s">>

IdleProc ==
  [pc |-> "idle", token |-> Null, payload |-> <<>>, fields |-> <<>>, created |-> {},
   patient |-> NoDoc, patientRef |-> 0, doctor |-> NoDoc, doctorRef |-> 0,
   lab |-> NoDoc, labRef |-> 0, report |-> NoDoc, reportRef |-> 0, count |-> 0,
   loaded |-> NoDoc]

Idle == \A p \in Procs : procs[p].pc = "idle"

\* errorHandler: the HTTP status of an error that reaches the middleware
errorHandler(err) ==
  IF err = "ValidationError" THEN 400
  ELSE IF err = "DuplicateKey" THEN 409
  ELSE 500

\* the record of one answered request: the operation, the x-webhook-token
\* header, the body, the HTTP status and the kinds of document it created
Entry(op, token, payload, status, created) ==
  [op |-> op, token |-> token, payload |-> payload, status |-> status, created |-> created]

\* res.status(status).json(...): the answer is recorded and the request ends
Answer(p, status) ==
  /\ log' = Append(log, Entry("handleWebhook", procs[p].token, procs[p].payload, status,
                              procs[p].created))
  /\ procs' = [procs EXCEPT ![p] = IdleProc]

\* an awaited call rejects: handleWebhook rethrows, the middleware answers
Throw(p, err) == Answer(p, errorHandler(err))

\* !token || token !== expectedToken
InvalidToken(token) == ~Truthy(token) \/ token # Str(WebhookSecret)

\* a variant without the reportId check
HandleWebhookBeginUnchecked(p, token, payload) ==
  /\ procs[p].pc = "idle"
  /\ calls < MaxCalls
  /\ calls' = calls + 1
  /\ \E dt \in 0..1 : now' = now + dt
  /\ UNCHANGED store
  /\ IF InvalidToken(token)
       THEN /\ log' = Append(log, Entry("handleWebhook", token, payload, 401, {}))
            /\ procs' = procs
       ELSE /\ procs' = [procs EXCEPT ![p] =
                           [IdleProc EXCEPT !.pc = "patientFind", !.token = token,
                                            !.payload = payload,
                                            !.fields = extractPayloadFields(payload).knownFields]]
            /\ log' = log

\* the start of a request: token check, extraction, reportId check
HandleWebhookBegin(p, token, payload) ==
  /\ procs[p].pc = "idle"
  /\ calls < MaxCalls
  /\ calls' = calls + 1
  /\ \E dt \in 0..1 : now' = now + dt
  /\ UNCHANGED store
  /\ LET fields == extractPayloadFields(payload).knownFields
     IN IF InvalidToken(token)
          THEN /\ log' = Append(log, Entry("handleWebhook", token, payload, 401, {}))
               /\ procs' = procs
        ELSE IF ~Truthy(fields.reportId)
          THEN /\ log' = Append(log, Entry("handleWebhook", token, payload, 400, {}))
               /\ procs' = procs
        ELSE /\ procs' = [procs EXCEPT ![p] =
                            [IdleProc EXCEPT !.pc = "patientFind", !.token = token,
                                             !.payload = payload, !.fields = fields]]
             /\ log' = log

sPAT == <<"P", "A", "T", "-">>

\* a variant that derives every patientId from the clock
WebhookPatientIdFromClock(fields, time) == Str(sPAT \o NatToChars(time))

\* createOrUpdatePatient: the patientId of the request
WebhookPatientId(fields, time) ==
  IF Truthy(fields.patientId) THEN Str(StringOf(fields.patientId))
  ELSE IF Truthy(fields.reportId) THEN Str(sPAT \o StringOf(fields.reportId))
  ELSE Str(sPAT \o NatToChars(time))

\* const stringifyId = (id) => id ? String(id) : null
stringifyId(id) == IF Truthy(id) THEN Str(StringOf(id)) ELSE Null

\* createOrUpdatePatient: the patientData object
PatientData(fields, allFields, time) ==
  (IF Truthy(fields.orgCity) \/ Truthy(fields.referralCity)
     THEN [address |-> Obj([city |-> Or(Or(fields.orgCity, fields.referralCity), Null),
                            state |-> Or(fields.orgArea, Null),
                            zipCode |-> Or(fields.referralPincode, Null),
                            country |-> Or(fields.countryCodeOfPatient, Null)])]
     ELSE <<>>)
  @@
  [patientId |-> WebhookPatientId(fields, time),
   name |-> Or(fields.patientName, Str(sUnknownPatient)),
   age |-> parseAge(fields.patientAge),
   gender |-> Or(fields.patientGender, Str(sNotSpecified)),
   phone |-> Or(Or(fields.patientPhone, fields.patientAlternateContact), Null),
   email |-> IF Truthy(fields.patientEmail) /\ isValidEmail(fields.patientEmail)
               THEN fields.patientEmail ELSE Null,
   billId |-> stringifyId(fields.billId),
   testId |-> stringifyId(fields.testId),
   reportId |-> stringifyId(fields.reportId),
   status |-> normalizePatientStatus(fields.status),
   currentStage |-> Str(sReportGenerated),
   webhookMetadata |-> Obj(allFields),
   lastVisitDate |-> DateValue(time),
   registrationDate |-> DateValue(time)]

\* createOrUpdatePatient: await Patient.findOne({ patientId })
PatientFind(p) ==
  /\ procs[p].pc = "patientFind"
  /\ LET patientId == WebhookPatientId(procs[p].fields, now)
         ref == FindOne(patients, LAMBDA d : Get(d, "patientId") = patientId)
     IN procs' = [procs EXCEPT ![p] =
                    [@ EXCEPT !.pc = "patientSave", !.patientRef = ref,
                              !.patient = IF ref = 0 THEN NoDoc ELSE patients[ref]]]
  /\ UNCHANGED <<store, now, calls, log>>

\* createOrUpdatePatient: Object.assign + await patient.save(), or await Patient.create
PatientSave(p) ==
  /\ procs[p].pc = "patientSave"
  /\ LET me == procs[p]
         data == PatientData(me.fields, me.payload, now)
         kept == IF me.patientRef # 0 /\ Truthy(Get(me.patient, "registrationDate"))
                   THEN [data EXCEPT !.registrationDate = me.patient.registrationDate]
                   ELSE data
         updated == CastPatient(kept) @@ me.patient
         fresh == WithDefaults(CastPatient(data), PatientDefaults)
     IN IF me.patientRef # 0
          THEN IF PatientInvalid(updated)
                 THEN Throw(p, "ValidationError") /\ UNCHANGED patients
               ELSE /\ patients' = [patients EXCEPT ![me.patientRef] =
                                      SaveModified(@, me.patient, updated)]
                    /\ procs' = [procs EXCEPT ![p] =
                                   [@ EXCEPT !.pc = "doctorFind", !.patient = updated]]
                    /\ log' = log
          ELSE IF PatientInvalid(fresh)
                 THEN Throw(p, "ValidationError") /\ UNCHANGED patients
               ELSE IF DuplicateKey(patients, "patientId", fresh.patientId, 0)
                 THEN Throw(p, "DuplicateKey") /\ UNCHANGED patients
               ELSE /\ patients' = Append(patients, fresh)
                    /\ procs' = [procs EXCEPT ![p] =
                                   [@ EXCEPT !.pc = "doctorFind", !.patient = fresh,
                                             !.patientRef = Len(patients) + 1,
                                             !.created = @ \cup {"Patient"}]]
                    /\ log' = log
  /\ UNCHANGED <<doctors, labs, reports, requestDumps, reportStatusTrackers,
                 sampleStatusTrackers, files, emails, now, calls>>

\* createOrFindDoctor: new RegExp(fields.doctorName, "i") and await Doctor.findOne
DoctorFind(p) ==
  /\ procs[p].pc = "doctorFind"
  /\ LET name == procs[p].fields.doctorName
     IN IF ~Truthy(name)
          THEN procs' = [procs EXCEPT ![p] = [@ EXCEPT !.pc = "labFindById"]] /\ log' = log
        ELSE IF RegExpInvalid(StringOf(name))
          THEN Throw(p, "SyntaxError")
        ELSE LET ref == FindOne(doctors,
                                LAMBDA d : RegExpTestI(StringOf(name), Get(d, "name").v))
             IN /\ procs' = [procs EXCEPT ![p] =
                               [@ EXCEPT !.pc = "doctorSave", !.doctorRef = ref,
                                         !.doctor = IF ref = 0 THEN NoDoc ELSE doctors[ref]]]
                /\ log' = log
  /\ UNCHANGED <<store, now, calls>>

sDOC == <<"D", "O", "C", "-">>

\* createOrFindDoctor: the document of a new doctor
NewDoctor(fields, time) ==
  [doctorId |-> Str(sDOC \o NatToChars(time)),
   name |-> fields.doctorName,
   email |-> IF isValidEmail(fields.referralEmail) THEN fields.referralEmail
             ELSE generateDoctorEmail(fields.doctorName, time),
   phone |-> Or(fields.referralContact, generateDoctorPhone),
   specialty |-> normalizeSpecialty(fields.doctorSpecialty),
   status |-> Str(sActive)]

\* createOrFindDoctor: the changes to a doctor that was found
UpdatedDoctor(doctor, fields) ==
  (IF Truthy(fields.doctorSpecialty)
     THEN [specialty |-> normalizeSpecialty(fields.doctorSpecialty)] ELSE <<>>)
  @@
  (IF /\ Truthy(fields.referralEmail)
      /\ isValidEmail(fields.referralEmail)
      /\ ~includes(Get(doctor, "email").v, CrelioLocal)
     THEN [email |-> fields.referralEmail] ELSE <<>>)
  @@
  (IF Truthy(fields.referralContact) /\ Get(doctor, "phone") = generateDoctorPhone
     THEN [phone |-> fields.referralContact] ELSE <<>>)

\* a variant whose schema declares the name unique as well
DoctorKeyTakenWithName(fresh) ==
  \/ DuplicateKey(doctors, "doctorId", fresh.doctorId, 0)
  \/ DuplicateKey(doctors, "email", fresh.email, 0)
  \/ DuplicateKey(doctors, "name", fresh.name, 0)

\* doctorSchema: the unique indexes of a Doctor are doctorId and email
DoctorKeyTaken(fresh) ==
  \/ DuplicateKey(doctors, "doctorId", fresh.doctorId, 0)
  \/ DuplicateKey(doctors, "email", fresh.email, 0)

\* createOrFindDoctor: await Doctor.create, or await doctor.save()
DoctorSave(p) ==
  /\ procs[p].pc = "doctorSave"
  /\ LET me == procs[p]
         fresh == WithDefaults(CastDoctor(NewDoctor(me.fields, now)), DoctorDefaults)
         updated == CastDoctor(UpdatedDoctor(me.doctor, me.fields)) @@ me.doctor
     IN IF me.doctorRef = 0
          THEN IF DoctorInvalid(fresh)
                 THEN Throw(p, "ValidationError") /\ UNCHANGED doctors
               ELSE IF DoctorKeyTaken(fresh)
                 THEN Throw(p, "DuplicateKey") /\ UNCHANGED doctors
               ELSE /\ doctors' = Append(doctors, fresh)
                    /\ procs' = [procs EXCEPT ![p] =
                                   [@ EXCEPT !.pc = "labFindById", !.doctor = fresh,
                                             !.doctorRef = Len(doctors) + 1,
                                             !.created = @ \cup {"Doctor"}]]
                    /\ log' = log
          ELSE IF DoctorInvalid(updated)
                 THEN Throw(p, "ValidationError") /\ UNCHANGED doctors
               ELSE IF /\ updated.email # me.doctor.email
                       /\ DuplicateKey(doctors, "email", updated.email, me.doctorRef)
                 THEN Throw(p, "DuplicateKey") /\ UNCHANGED doctors
               ELSE /\ doctors' = [doctors EXCEPT ![me.doctorRef] =
                                     SaveModified(@, me.doctor, updated)]
                    /\ procs' = [procs EXCEPT ![p] =
                                   [@ EXCEPT !.pc = "labFindById", !.doctor = updated]]
                    /\ log' = log
  /\ UNCHANGED <<patients, labs, reports, requestDumps, reportStatusTrackers,
                 sampleStatusTrackers, files, emails, now, calls>>

sLAB == <<"L", "A", "B", "-">>

\* createOrFindLab: await Lab.findOne({ labId: String(fields.labId) })
LabFindById(p) ==
  /\ procs[p].pc = "labFindById"
  /\ LET fields == procs[p].fields
         ref == IF Truthy(fields.labId)
                  THEN FindOne(labs, LAMBDA d : Get(d, "labId") = CastTrim(fields.labId))
                  ELSE 0
     IN IF ~Truthy(fields.labName) /\ ~Truthy(fields.labId)
          THEN procs' = [procs EXCEPT ![p] = [@ EXCEPT !.pc = "assignDoctor"]]
          ELSE procs' = [procs EXCEPT ![p] =
                           [@ EXCEPT !.pc = IF ref = 0 /\ Truthy(fields.labName)
                                              THEN "labFindByName" ELSE "labSave",
                                     !.labRef = ref,
                                     !.lab = IF ref = 0 THEN NoDoc ELSE labs[ref]]]
  /\ UNCHANGED <<store, now, calls, log>>

\* createOrFindLab: new RegExp(fields.labName, "i") and await Lab.findOne({ name: ... });
\* the filter names the path "name", which no Lab document has (the schema
\* stores labName), so no document matches
LabFindByName(p) ==
  /\ procs[p].pc = "labFindByName"
  /\ IF RegExpInvalid(StringOf(procs[p].fields.labName))
       THEN Throw(p, "SyntaxError")
       ELSE LET ref == FindOne(labs, LAMBDA d :
                                 /\ "name" \in DOMAIN d
                                 /\ RegExpTestI(StringOf(procs[p].fields.labName), d.name.v))
            IN /\ procs' = [procs EXCEPT ![p] =
                              [@ EXCEPT !.pc = "labSave", !.labRef = ref,
                                        !.lab = IF ref = 0 THEN NoDoc ELSE labs[ref]]]
               /\ log' = log
  /\ UNCHANGED <<store, now, calls>>

\* createOrFindLab: the document of a new lab
NewLab(fields, allFields, time) ==
  [labId |-> IF Truthy(fields.labId) THEN Str(StringOf(fields.labId))
             ELSE Str(sLAB \o NatToChars(time)),
   labName |-> Or(fields.labName, Str(sUnknownLab)),
   address |-> Obj([city |-> Or(Or(fields.labCity, fields.orgCity), Null),
                    street |-> Or(fields.orgAddress, Null),
                    state |-> Or(fields.orgArea, Null)]),
   phone |-> Or(fields.orgContact, Null),
   email |-> IF Truthy(fields.orgEmail) /\ isValidEmail(fields.orgEmail)
               THEN fields.orgEmail ELSE Null,
   status |-> Str(sActive),
   webhookMetadata |-> Obj(allFields)]

\* lab.address = lab.address || {}
AddressOf(doc) == IF Get(doc, "address").t = "object" THEN doc.address.v ELSE <<>>

\* createOrFindLab: the changes to a lab that was found
UpdatedLab(lab, fields, allFields) ==
  [webhookMetadata |-> Obj(allFields)]
  @@
  (IF Truthy(fields.orgEmail) /\ isValidEmail(fields.orgEmail)
     THEN [email |-> fields.orgEmail] ELSE <<>>)
  @@
  (IF Truthy(fields.orgContact) THEN [phone |-> fields.orgContact] ELSE <<>>)
  @@
  (IF Truthy(fields.labCity) \/ Truthy(fields.orgCity) \/ Truthy(fields.orgAddress)
     THEN [address |-> Obj(
             (IF Truthy(fields.orgAddress) THEN [street |-> fields.orgAddress] ELSE <<>>)
             @@
             (IF Truthy(fields.labCity) \/ Truthy(fields.orgCity)
                THEN [city |-> Or(fields.labCity, fields.orgCity)] ELSE <<>>)
             @@ AddressOf(lab))]
     ELSE <<>>)

\* createOrFindLab: await Lab.create, or await lab.save()
LabSave(p) ==
  /\ procs[p].pc = "labSave"
  /\ LET me == procs[p]
         fresh == CastLab(NewLab(me.fields, me.payload, now))
         updated == CastLab(UpdatedLab(me.lab, me.fields, me.payload)) @@ me.lab
     IN IF me.labRef = 0
          THEN IF LabInvalid(fresh)
                 THEN Throw(p, "ValidationError") /\ UNCHANGED labs
               ELSE IF DuplicateKey(labs, "labId", fresh.labId, 0)
                 THEN Throw(p, "DuplicateKey") /\ UNCHANGED labs
               ELSE /\ labs' = Append(labs, fresh)
                    /\ procs' = [procs EXCEPT ![p] =
                                   [@ EXCEPT !.pc = "assignDoctor", !.lab = fresh,
                                             !.labRef = Len(labs) + 1,
                                             !.created = @ \cup {"Lab"}]]
                    /\ log' = log
          ELSE IF LabInvalid(updated)
                 THEN Throw(p, "ValidationError") /\ UNCHANGED labs
               ELSE /\ labs' = [labs EXCEPT ![me.labRef] = SaveModified(@, me.lab, updated)]
                    /\ procs' = [procs EXCEPT ![p] =
                                   [@ EXCEPT !.pc = "assignDoctor", !.lab = updated]]
                    /\ log' = log
  /\ UNCHANGED <<patients, doctors, reports, requestDumps, reportStatusTrackers,
                 sampleStatusTrackers, files, emails, now, calls>>

\* handleWebhook: patient.assignedDoctor = doctor._id; await patient.save()
AssignDoctor(p) ==
  /\ procs[p].pc = "assignDoctor"
  /\ LET me == procs[p]
         updated == [assignedDoctor |-> Id(me.doctorRef)] @@ me.patient
     IN IF me.doctorRef # 0 /\ ~Truthy(Get(me.patient, "assignedDoctor"))
          THEN /\ patients' = [patients EXCEPT ![me.patientRef] =
                                 SaveModified(@, me.patient, updated)]
               /\ procs' = [procs EXCEPT ![p] =
                              [@ EXCEPT !.pc = "countPatients", !.patient = updated]]
          ELSE /\ patients' = patients
               /\ procs' = [procs EXCEPT ![p] = [@ EXCEPT !.pc = "reportFind"]]
  /\ UNCHANGED <<doctors, labs, reports, requestDumps, reportStatusTrackers,
                 sampleStatusTrackers, files, emails, now, calls, log>>

\* handleWebhook: doctor.patientCount = await Patient.countDocuments({ assignedDoctor })
CountPatients(p) ==
  /\ procs[p].pc = "countPatients"
  /\ LET n == CountDocuments(patients,
                             LAMBDA d : Get(d, "assignedDoctor") = Id(procs[p].doctorRef))
     IN procs' = [procs EXCEPT ![p] = [@ EXCEPT !.pc = "saveCount", !.count = n]]
  /\ UNCHANGED <<store, now, calls, log>>

\* handleWebhook: await doctor.save() of the patient count
SaveCount(p) ==
  /\ procs[p].pc = "saveCount"
  /\ LET me == procs[p]
         updated == [patientCount |-> Num(me.count)] @@ me.doctor
     IN /\ doctors' = [doctors EXCEPT ![me.doctorRef] = SaveModified(@, me.doctor, updated)]
        /\ procs' = [procs EXCEPT ![p] = [@ EXCEPT !.pc = "reportFind", !.doctor = updated]]
  /\ UNCHANGED <<patients, labs, reports, requestDumps, reportStatusTrackers,
                 sampleStatusTrackers, files, emails, now, calls, log>>

\* const parseDate = (dateStr) => ...: the model's date strings are a four-digit
\* year (a valid date) or a text without digits (an invalid one)
parseDate(dateStr) ==
  IF ~Truthy(dateStr) THEN Null
  ELSE IF dateStr.t = "date" THEN dateStr
  ELSE IF IsNum(dateStr) THEN DateValue(dateStr.v)
  ELSE IF IsStr(dateStr) /\ Len(dateStr.v) = 4 /\ AllDigits(dateStr.v)
    THEN DateValue(ParseDigits(dateStr.v))
  ELSE Null

\* Buffer.from(base64, "base64").length: six bits for every character before the padding
Base64Length(s) == (Len(SelectSeq(s, LAMBDA c : c # "=")) * 3) \div 4

sReportsDir == <<"r", "e", "p", "o", "r", "t", "s", "/">>

sReportFile == <<"r", "e", "p", "o", "r", "t", "_">>

sPdf == <<".", "p", "d", "f">>

\* createReport: await Report.findOne({ $or: [{ reportId: reportIdStr }, { reportId }] })
ReportFind(p) ==
  /\ procs[p].pc = "reportFind"
  /\ LET reportIdStr == Str(StringOf(procs[p].fields.reportId))
         ref == FindOne(reports, LAMBDA d : Get(d, "reportId") = reportIdStr)
     IN procs' = [procs EXCEPT ![p] =
                    [@ EXCEPT !.pc = "reportWrite", !.reportRef = ref,
                              !.report = IF ref = 0 THEN NoDoc ELSE reports[ref],
                              !.loaded = IF ref = 0 THEN NoDoc ELSE reports[ref]]]
  /\ UNCHANGED <<store, now, calls, log>>

\* createReport: the fields of an existing report after the update
UpdatedReport(report, fields, allFields, doctorRef, time) ==
  (IF doctorRef # 0 THEN [doctor |-> Id(doctorRef)] ELSE <<>>)
  @@
  [reportBase64 |-> Or(fields.reportBase64, Get(report, "reportBase64")),
   billId |-> Or(stringifyId(fields.billId), Get(report, "billId")),
   testId |-> Or(stringifyId(fields.testId), Get(report, "testId")),
   testName |-> Or(fields.testName, Get(report, "testName")),
   testCategory |-> Or(fields.testCategory, Get(report, "testCategory")),
   testCode |-> Or(fields.testCode, Get(report, "testCode")),
   webhookMetadata |-> Obj(allFields),
   status |-> normalizeReportStatus(fields.status),
   reportGeneratedDate |-> Or(parseDate(fields.reportDate), DateValue(time)),
   testDate |-> Or(parseDate(fields.sampleDate), Get(report, "testDate"))]

\* createReport: the reportData of a new report
NewReport(fields, allFields, patientRef, doctorRef, time) ==
  (IF Truthy(fields.reportBase64)
     THEN [fileSize |-> Num(Base64Length(StringOf(fields.reportBase64))),
           fileName |-> Str(sReportFile \o StringOf(fields.reportId) \o sPdf)]
     ELSE <<>>)
  @@
  [reportId |-> Str(StringOf(fields.reportId)),
   billId |-> stringifyId(fields.billId),
   testId |-> stringifyId(fields.testId),
   patient |-> Id(patientRef),
   doctor |-> IF doctorRef # 0 THEN Id(doctorRef) ELSE Null,
   reportBase64 |-> Or(fields.reportBase64, Null),
   testName |-> Or(fields.testName, Str(sLabTest)),
   testType |-> Null,
   testCategory |-> Or(fields.testCategory, Null),
   testCode |-> Or(fields.testCode, Null),
   status |-> normalizeReportStatus(fields.status),
   testDate |-> Or(parseDate(fields.sampleDate), DateValue(time)),
   reportGeneratedDate |-> Or(parseDate(fields.reportDate), DateValue(time)),
   webhookMetadata |-> Obj(allFields)]

\* the paths that record a PDF written to ./reports
SavedFile(fields, withSize) ==
  (IF withSize
     THEN [fileSize |-> Num(Base64Length(StringOf(fields.reportBase64))),
           fileName |-> Str(sReportFile \o StringOf(fields.reportId) \o sPdf)]
     ELSE <<>>)
  @@
  [pdfPath |-> Str(sReportsDir \o sReportFile \o StringOf(fields.reportId) \o sPdf)]

\* a variant that writes the PDF of every event that carries base64 data
ReportWriteAlways(p) ==
  /\ procs[p].pc = "reportWrite"
  /\ LET me == procs[p]
         prepared == IF me.reportRef # 0
                       THEN UpdatedReport(me.report, me.fields, me.payload, me.doctorRef, now)
                            @@ me.report
                       ELSE NewReport(me.fields, me.payload, me.patientRef, me.doctorRef, now)
         writes == Truthy(me.fields.reportBase64)
     IN IF me.reportRef = 0 /\ Truthy(me.fields.reportBase64) /\ ~IsStr(me.fields.reportBase64)
          THEN Throw(p, "TypeError") /\ UNCHANGED files
        ELSE \E written \in BOOLEAN :
          /\ written => writes /\ IsStr(me.fields.reportBase64)
          /\ log' = log
          /\ files' = IF written THEN Append(files, Str(StringOf(me.fields.reportId))) ELSE files
          /\ procs' = [procs EXCEPT ![p] =
                         [@ EXCEPT !.pc = "reportSave",
                                   !.report = IF written
                                                THEN SavedFile(me.fields, me.reportRef # 0)
                                                     @@ prepared
                                                ELSE prepared]]
  /\ UNCHANGED <<patients, doctors, labs, reports, requestDumps, reportStatusTrackers,
                 sampleStatusTrackers, emails, now, calls>>

\* createReport: the code between Report.findOne and the save: the report is
\* prepared and, when a payload carries base64 data and no pdfPath is recorded,
\* the PDF is written; a failed write is caught and logged. Buffer.from of a
\* value that is no string throws: outside the try block when the report is new
ReportWrite(p) ==
  /\ procs[p].pc = "reportWrite"
  /\ LET me == procs[p]
         prepared == IF me.reportRef # 0
                       THEN UpdatedReport(me.report, me.fields, me.payload, me.doctorRef, now)
                            @@ me.report
                       ELSE NewReport(me.fields, me.payload, me.patientRef, me.doctorRef, now)
         writes == /\ Truthy(me.fields.reportBase64)
                   /\ (me.reportRef # 0 => ~Truthy(Get(me.report, "pdfPath")))
     IN IF me.reportRef = 0 /\ Truthy(me.fields.reportBase64) /\ ~IsStr(me.fields.reportBase64)
          THEN Throw(p, "TypeError") /\ UNCHANGED files
        ELSE \E written \in BOOLEAN :
          /\ written => writes /\ IsStr(me.fields.reportBase64)
          /\ log' = log
          /\ files' = IF written THEN Append(files, Str(StringOf(me.fields.reportId))) ELSE files
          /\ procs' = [procs EXCEPT ![p] =
                         [@ EXCEPT !.pc = "reportSave",
                                   !.report = IF written
                                                THEN SavedFile(me.fields, me.reportRef # 0)
                                                     @@ prepared
                                                ELSE prepared]]
  /\ UNCHANGED <<patients, doctors, labs, reports, requestDumps, reportStatusTrackers,
                 sampleStatusTrackers, emails, now, calls>>

\* createReport: await report.save(), or await Report.create(reportData)
ReportSave(p) ==
  /\ procs[p].pc = "reportSave"
  /\ LET me == procs[p]
         cast == CastReport(me.report)
     IN IF ReportInvalid(cast)
          THEN Throw(p, "ValidationError") /\ UNCHANGED reports
        ELSE IF me.reportRef # 0
          THEN /\ reports' = [reports EXCEPT ![me.reportRef] = SaveModified(@, me.loaded, cast)]
               /\ procs' = [procs EXCEPT ![p] = [@ EXCEPT !.pc = "respond", !.report = cast]]
               /\ log' = log
        ELSE IF DuplicateKey(reports, "reportId", cast.reportId, 0)
          THEN Throw(p, "DuplicateKey") /\ UNCHANGED reports
        ELSE /\ reports' = Append(reports, cast)
             /\ procs' = [procs EXCEPT ![p] =
                            [@ EXCEPT !.pc = "reportPush", !.report = cast,
                                      !.reportRef = Len(reports) + 1,
                                      !.created = @ \cup {"Report"}]]
             /\ log' = log
  /\ UNCHANGED <<patients, doctors, labs, requestDumps, reportStatusTrackers,
                 sampleStatusTrackers, files, emails, now, calls>>

\* createReport: patient.labReports.push(report._id); await patient.save()
ReportPush(p) ==
  /\ procs[p].pc = "reportPush"
  /\ patients' = [patients EXCEPT ![procs[p].patientRef] =
                    [labReports |-> Arr(Append(Get(@, "labReports").v, Id(procs[p].reportRef)))]
                    @@ @]
  /\ procs' = [procs EXCEPT ![p] = [@ EXCEPT !.pc = "respond"]]
  /\ UNCHANGED <<doctors, labs, reports, requestDumps, reportStatusTrackers,
                 sampleStatusTrackers, files, emails, now, calls, log>>

\* handleWebhook: sendWebhookAlert(...) is dispatched without await, then 200
Respond(p) ==
  /\ procs[p].pc = "respond"
  /\ emails' = emails + 1
  /\ Answer(p, 200)
  /\ UNCHANGED <<patients, doctors, labs, reports, requestDumps, reportStatusTrackers,
                 sampleStatusTrackers, files, now, calls>>

(***************************************************************************)
(* The other webhook endpoints: one awaited create each                    *)
(***************************************************************************)
\* the part of a request that every endpoint shares: one more request is issued
Request ==
  /\ calls < MaxCalls
  /\ calls' = calls + 1
  /\ now' = now
  /\ procs' = procs

\* billGenerateHandler of webhookController.js: token check, then
\* await RequestDump.create({ request: req.body })
billGenerateHandler(token, body) ==
  /\ Request
  /\ IF InvalidToken(token)
       THEN /\ log' = Append(log, Entry("billGenerateHandler", token, body, 401, {}))
            /\ requestDumps' = requestDumps
       ELSE /\ log' = Append(log, Entry("billGenerateHandler", token, body, 200, {"RequestDump"}))
            /\ requestDumps' = Append(requestDumps, [request |-> body])
  /\ UNCHANGED <<patients, doctors, labs, reports, reportStatusTrackers,
                 sampleStatusTrackers, files, emails>>

\* patientRegisterHandler: await Patient.create({ patient: req.body }); the
\* document has no patientId and no name, the validation error is caught
patientRegisterHandler(token, body) ==
  /\ Request
  /\ LET fresh == WithDefaults(CastPatient([patient |-> Obj(body)]), PatientDefaults)
     IN IF PatientInvalid(fresh)
          THEN /\ log' = Append(log, Entry("patientRegisterHandler", token, body, 500, {}))
               /\ patients' = patients
          ELSE /\ log' = Append(log, Entry("patientRegisterHandler", token, body, 200, {"Patient"}))
               /\ patients' = Append(patients, fresh)
  /\ UNCHANGED <<doctors, labs, reports, requestDumps, reportStatusTrackers,
                 sampleStatusTrackers, files, emails>>

\* trackReportStatusHandler: await ReportStatusTracker.create({ request: req.body })
trackReportStatusHandler(token, body) ==
  /\ Request
  /\ log' = Append(log, Entry("trackReportStatusHandler", token, body, 200,
                              {"ReportStatusTracker"}))
  /\ reportStatusTrackers' = Append(reportStatusTrackers, [request |-> body])
  /\ UNCHANGED <<patients, doctors, labs, reports, requestDumps,
                 sampleStatusTrackers, files, emails>>

\* trackSampleStatusHandler: await SampleStatusTracker.create({ request: req.body })
trackSampleStatusHandler(token, body) ==
  /\ Request
  /\ log' = Append(log, Entry("trackSampleStatusHandler", token, body, 200,
                              {"SampleStatusTracker"}))
  /\ sampleStatusTrackers' = Append(sampleStatusTrackers, [request |-> body])
  /\ UNCHANGED <<patients, doctors, labs, reports, requestDumps,
                 reportStatusTrackers, files, emails>>

(***************************************************************************)
(* Patient consolidation service (patientConsolidationService.js)          *)
(***************************************************************************)
NaN == [t |-> "nan"]

\* parseInt(x): the leading digits of a string, a number as it is
parseInt(x) ==
  IF IsNum(x) THEN x
  ELSE IF IsStr(x) /\ DigitRun(TrimStart(x.v)) # <<>>
    THEN Num(ParseDigits(DigitRun(TrimStart(x.v))))
  ELSE NaN

\* req[key] of a JSON object, undefined read as null
Field(req, key) == IF HasOwn(req, key) THEN GetOwn(req, key) ELSE Null

\* x?.[0], x?.[key]
First(x) ==
  IF x.t = "array" /\ x.v # <<>> THEN x.v[1]
  ELSE IF x.t = "string" /\ x.v # <<>> THEN Str(<<x.v[1]>>)
  ELSE Null

Prop(x, key) == IF x.t = "object" THEN Field(x.v, key) ELSE Null

\* typeof x === "object" of a value that is not null
IsObjectType(x) == x.t \in {"object", "array", "date", "id"}

sSELF == <<"S", "E", "L", "F">>

\* s.split(sep)[0]
RECURSIVE SplitFirst(_, _)
SplitFirst(s, sep) ==
  IF s = <<>> \/ Head(s) = sep THEN <<>> ELSE <<Head(s)>> \o SplitFirst(Tail(s), sep)

extractDoctorNameFromReferral(billReferral) ==
  IF ~Truthy(billReferral) \/ ~IsStr(billReferral) THEN Null
  ELSE IF billReferral.v = sSELF \/ trim(billReferral.v) = <<>> THEN Null
  ELSE LET doctorName == trim(SplitFirst(billReferral.v, ";"))
       IN IF doctorName # <<>> /\ doctorName # sSELF THEN Str(doctorName) ELSE Null

extractDoctorNameFromSigningDoctor(signingDoctor) ==
  IF ~Truthy(signingDoctor) \/ signingDoctor.t # "array" \/ signingDoctor.v = <<>> THEN Null
  ELSE LET firstDoctor == signingDoctor.v[1]
       IN IF firstDoctor.t = "object" /\ firstDoctor.v # <<>>
               /\ Truthy(firstDoctor.v[1][2]) /\ IsStr(firstDoctor.v[1][2])
            THEN Str(trim(firstDoctor.v[1][2].v))
            ELSE Null

sGeneratedPhone == <<"0", "0", "0", "0", "0", "0", "0", "0", "0", "0">>

\* s.replace(/-/g, '')
RemoveDashes(s) == SelectSeq(s, LAMBDA c : c # "-")

\* the Doctor a consolidation creates for a name
ConsolidationDoctor(doctorName, docId, time) ==
  LET doctorId == IF Truthy(docId) THEN sDOC \o StringOf(docId) ELSE sDOC \o NatToChars(time)
  IN [doctorId |-> Str(doctorId),
      name |-> doctorName,
      email |-> Str(RemoveDashes(toLowerCase(doctorId)) \o CrelioLocal),
      phone |-> Str(sGeneratedPhone),
      specialty |-> Str(sGeneralPractitioner),
      status |-> Str(sActive)]

\* new RegExp(`^${escaped name}$`, 'i') matches the name of doc
SameNameIgnoringCase(doctorName, doc) ==
  RegExpTestI(<<"^">> \o EscapeRegExp(doctorName.v) \o <<"$">>, Get(doc, "name").v)

\* findOrCreateDoctor(doctorName, docId) over the collection docs: the
\* collection afterwards and the _id returned (0 for null); errors are caught
findOrCreateDoctor(docs, doctorName, docId, time) ==
  IF ~Truthy(doctorName) \/ ~IsStr(doctorName) THEN [doctors |-> docs, id |-> 0]
  ELSE LET ref == FindOne(docs, LAMBDA d : SameNameIgnoringCase(doctorName, d))
           fresh == WithDefaults(CastDoctor(ConsolidationDoctor(doctorName, docId, time)),
                                 DoctorDefaults)
       IN IF ref # 0 THEN [doctors |-> docs, id |-> ref]
          ELSE IF \/ DoctorInvalid(fresh)
                  \/ DuplicateKey(docs, "doctorId", fresh.doctorId, 0)
                  \/ DuplicateKey(docs, "email", fresh.email, 0)
            THEN [doctors |-> docs, id |-> 0]
          ELSE [doctors |-> Append(docs, fresh), id |-> Len(docs) + 1]

sBILL == <<"B", "I", "L", "L", "-">>

\* 'request.billId' / 'request.bill_id' of a stored webhook body equals one of
\* the values the service asks for
MatchesBill(doc, billId, billIdNumber) ==
  \/ Field(doc.request, "billId") \in {billId, parseInt(billId)} \ {Null, NaN}
  \/ Field(doc.request, "bill_id") \in {Or(billIdNumber, billId), parseInt(Or(billIdNumber, billId))}
                                        \ {Null, NaN}

\* consolidatePatientFromBillId: the patientId of a patient built from a bill
ServicePatientId(req, billId) ==
  LET patientIdNumber == Or(Field(req, "Patient Id"), Field(req, "patientId"))
  IN IF Truthy(patientIdNumber) THEN Str(sPAT \o StringOf(patientIdNumber))
     ELSE Str(sBILL \o StringOf(billId))

\* consolidatePatientFromBillId: newPatientData
ServicePatientData(req, billId, billIdNumber, doctorRef) ==
  (IF doctorRef # 0 THEN [assignedDoctor |-> Id(doctorRef)] ELSE <<>>)
  @@
  [patientId |-> ServicePatientId(req, billId),
   name |-> Or(Field(req, "Patient Name"), Field(req, "patientName")),
   designation |-> Or(Field(req, "Patient Designation"), Null),
   age |-> IF Truthy(Field(req, "Patient Age")) THEN parseInt(Field(req, "Patient Age")) ELSE Null,
   gender |-> Or(Or(Field(req, "Patient gender"), Field(req, "gender")), Null),
   phone |-> Or(Or(Or(Field(req, "Mobile Number"), Field(req, "Patient Contact")),
                   Field(req, "phone")), Null),
   email |-> Or(Or(Field(req, "patient_email"), Field(req, "email")), Null),
   billId |-> Str(StringOf(billId)),
   billIdNumber |-> parseInt(Or(billIdNumber, billId)),
   billTotalAmount |-> Or(Field(req, "billTotalAmount"), Null),
   dueAmount |-> Or(Field(req, "dueAmount"), Null),
   billReferral |-> Or(Field(req, "billReferral"), Null),
   patientIdNumber |-> Or(Or(Field(req, "Patient Id"), Field(req, "patientId")), Null),
   labPatientId |-> Or(Field(req, "labPatientId"), Null)]

\* new Date(x) of a value that is no object
NewDate(x) == IF IsNull(parseDate(x)) THEN InvalidDate ELSE parseDate(x)

\* consolidatePatientFromBillId: updateData from the Report of the bill and
\* the latest ReportStatusTracker of the bill
ServiceUpdateData(report, tracker) ==
  LET req == IF tracker = NoDoc THEN <<>> ELSE tracker.request
      details == First(Field(req, "reportDetails"))
      fromTracker ==
        (IF Truthy(Prop(details, "Signing Doctor"))
           THEN [signingDoctor |-> Prop(details, "Signing Doctor")] ELSE <<>>)
        @@ (IF Truthy(Prop(details, "reportBase64"))
              THEN [reportBase64 |-> Prop(details, "reportBase64")] ELSE <<>>)
        @@ (IF Truthy(Field(req, "status")) THEN [reportStatus |-> Field(req, "status")] ELSE <<>>)
        @@ (IF Truthy(Prop(details, "Sample Date")) /\ ~IsObjectType(Prop(details, "Sample Date"))
              THEN [sampleDate |-> NewDate(Prop(details, "Sample Date"))] ELSE <<>>)
        @@ (IF Truthy(Prop(details, "Accession Date"))
                /\ ~IsObjectType(Prop(details, "Accession Date"))
              THEN [accessionDate |-> NewDate(Prop(details, "Accession Date"))] ELSE <<>>)
      fromReport ==
        (IF Truthy(Get(report, "signingDoctor"))
           THEN [signingDoctor |-> report.signingDoctor] ELSE <<>>)
        @@ (IF Truthy(Get(report, "reportBase64"))
              THEN [reportBase64 |-> report.reportBase64] ELSE <<>>)
        @@ (IF Truthy(Get(report, "status")) THEN [reportStatus |-> report.status] ELSE <<>>)
        @@ (IF Truthy(Get(report, "sampleDate")) THEN [sampleDate |-> report.sampleDate] ELSE <<>>)
  IN fromTracker @@ fromReport

\* the last document of coll that satisfies Filter, or 0 (sort createdAt: -1)
FindLatest(coll, Filter(_)) ==
  IF \E i \in 1..Len(coll) : Filter(coll[i])
    THEN SetMax({i \in 1..Len(coll) : Filter(coll[i])})
    ELSE 0

\* the outcome of a run: the Patient and Doctor collections afterwards
RunResult(pats, docs) ==
  [patients |-> pats, doctors |-> docs,
   created |-> (IF Len(pats) > Len(patients) THEN {"Patient"} ELSE {})
               \cup (IF Len(docs) > Len(doctors) THEN {"Doctor"} ELSE {}),
   error |-> FALSE]

\* the outcome of a run one of whose awaited calls rejected: what was written
\* before stays, the rest of the run is skipped
RunFailed(pats, docs) == [RunResult(pats, docs) EXCEPT !.error = TRUE]

\* a variant that replaces the document by updateData instead of setting its paths
ServiceWriteReplaces(pats, docs, existing, cast) ==
  IF DOMAIN cast = {} THEN RunResult(pats, docs)
  ELSE IF \E path \in DOMAIN cast : cast[path] = CastError THEN RunFailed(pats, docs)
  ELSE RunResult([pats EXCEPT ![existing] = cast @@ [path \in DOMAIN @ |-> Null]], docs)

\* await Patient.findByIdAndUpdate(existingPatient._id, { $set: updateData })
ServiceWrite(pats, docs, existing, cast) ==
  IF DOMAIN cast = {} THEN RunResult(pats, docs)
  ELSE IF \E path \in DOMAIN cast : cast[path] = CastError THEN RunFailed(pats, docs)
  ELSE RunResult([pats EXCEPT ![existing] = cast @@ @], docs)

\* if (doctorId) updateData.assignedDoctor = doctorId
ServiceLinked(pats, existing, data, linked) ==
  ServiceWrite(pats, linked.doctors, existing,
               CastPatient((IF linked.id # 0 THEN [assignedDoctor |-> Id(linked.id)] ELSE <<>>)
                           @@ data))

\* the doctor of the signingDoctor of updateData, when the referral gave none
ServiceLinkBySigning(pats, existing, data, time, byReferral, signing) ==
  ServiceLinked(pats, existing, data,
                IF byReferral.id = 0 /\ Truthy(signing)
                  THEN findOrCreateDoctor(byReferral.doctors, signing, Null, time)
                  ELSE byReferral)

\* the doctor of the billReferral of the RequestDump
ServiceLinkByReferral(pats, docs, existing, data, time, req, referral) ==
  ServiceLinkBySigning(pats, existing, data, time,
                       IF Truthy(referral)
                         THEN findOrCreateDoctor(docs, referral, Field(req, "docId"), time)
                         ELSE [doctors |-> docs, id |-> 0],
                       IF "signingDoctor" \in DOMAIN data
                         THEN extractDoctorNameFromSigningDoctor(data.signingDoctor) ELSE Null)

\* the referral doctor a body names
ReferralOf(req) ==
  IF Truthy(Field(req, "billReferral"))
    THEN extractDoctorNameFromReferral(Field(req, "billReferral")) ELSE Null

\* the second half of consolidatePatientFromBillId: the update of the patient
\* at position existing with the data of the Report and the latest tracker
ServiceUpdate(pats, docs, existing, data, time, req) ==
  IF existing = 0 THEN RunResult(pats, docs)
  ELSE IF Truthy(Get(pats[existing], "assignedDoctor"))
    THEN ServiceLinked(pats, existing, data, [doctors |-> docs, id |-> 0])
  ELSE ServiceLinkByReferral(pats, docs, existing, data, time, req, ReferralOf(req))

\* updateData of the bill: from the first Report and the latest ReportStatusTracker
ServiceDataOf(billId, billIdNumber) ==
  LET reportRef == FindOne(reports, LAMBDA d :
                     \/ Get(d, "billId") = Str(StringOf(parseInt(billId)))
                     \/ Get(d, "billId") = Str(StringOf(parseInt(Or(billIdNumber, billId)))))
      trackerRef == FindLatest(reportStatusTrackers,
                               LAMBDA d : MatchesBill(d, billId, billIdNumber))
  IN ServiceUpdateData(IF reportRef = 0 THEN NoDoc ELSE reports[reportRef],
                       IF trackerRef = 0 THEN NoDoc ELSE reportStatusTrackers[trackerRef])

\* await Patient.create(newPatientData); existingPatient = await Patient.findOne({ patientId })
ServiceInsert(billId, billIdNumber, time, req, docs, fresh) ==
  IF PatientInvalid(fresh) \/ DuplicateKey(patients, "patientId", fresh.patientId, 0)
    THEN RunFailed(patients, docs)
    ELSE ServiceUpdate(Append(patients, fresh), docs,
                       FindOne(Append(patients, fresh),
                               LAMBDA d : Get(d, "patientId") = fresh.patientId),
                       ServiceDataOf(billId, billIdNumber), time, req)

\* the new patient of a RequestDump, its doctor found or created first
ServiceCreate(billId, billIdNumber, time, req, linked) ==
  ServiceInsert(billId, billIdNumber, time, req, linked.doctors,
                WithDefaults(CastPatient(ServicePatientData(req, billId, billIdNumber, linked.id)),
                             PatientDefaults))

\* the first half: no patient of the bill exists and a RequestDump does
ServiceFound(billId, billIdNumber, time, found, dumpRef) ==
  IF found # 0 \/ dumpRef = 0
    THEN ServiceUpdate(patients, doctors, found, ServiceDataOf(billId, billIdNumber), time,
                       IF dumpRef = 0 THEN <<>> ELSE requestDumps[dumpRef].request)
  ELSE IF ~Truthy(Or(Field(requestDumps[dumpRef].request, "Patient Name"),
                     Field(requestDumps[dumpRef].request, "patientName")))
    THEN RunResult(patients, doctors)
  ELSE ServiceCreate(billId, billIdNumber, time, requestDumps[dumpRef].request,
                     IF Truthy(ReferralOf(requestDumps[dumpRef].request))
                       THEN findOrCreateDoctor(doctors, ReferralOf(requestDumps[dumpRef].request),
                                               Field(requestDumps[dumpRef].request, "docId"), time)
                       ELSE [doctors |-> doctors, id |-> 0])

\* consolidatePatientFromBillId(billId, billIdNumber): the whole run, whose
\* errors are caught and logged.  The result is the store afterwards.
consolidatePatientFromBillId(billId, billIdNumber, time) ==
  IF parseInt(billId) = NaN \/ parseInt(Or(billIdNumber, billId)) = NaN
    THEN RunFailed(patients, doctors)
    ELSE ServiceFound(billId, billIdNumber, time,
                      FindOne(patients, LAMBDA d :
                        \/ Get(d, "billId") = Str(StringOf(billId))
                        \/ Get(d, "billIdNumber") = parseInt(billId)
                        \/ Get(d, "billIdNumber") = parseInt(Or(billIdNumber, billId))),
                      FindOne(requestDumps, LAMBDA d : MatchesBill(d, billId, billIdNumber)))

\* a variant whose catch block throws the error again
ServicePromiseRethrown(after) ==
  [settled |-> IF after.error THEN "rejected" ELSE "fulfilled", logged |-> after.error]

\* the promise of consolidatePatientFromBillId: the catch block around the
\* whole body logs the error and returns
ServicePromise(after) == [settled |-> "fulfilled", logged |-> after.error]

\* the body of one run of consolidatePatientFromBillId
RunConsolidation(billId, billIdNumber) ==
  /\ \E dt \in 0..1 :
       /\ now' = now + dt
       /\ LET after == consolidatePatientFromBillId(billId, billIdNumber, now + dt)
          IN /\ patients' = after.patients
             /\ doctors' = after.doctors
             /\ log' = Append(log, Entry("consolidatePatientFromBillId", Null,
                                         <<billId, billIdNumber>>, 0, after.created)
                                   @@ [promise |-> ServicePromise(after)])
  /\ UNCHANGED <<labs, reports, requestDumps, reportStatusTrackers, sampleStatusTrackers,
                 files, emails, procs>>

\* one run of consolidatePatientFromBillId
ConsolidatePatientFromBillId(billId, billIdNumber) ==
  /\ calls < MaxCalls
  /\ calls' = calls + 1
  /\ RunConsolidation(billId, billIdNumber)

(***************************************************************************)
(* Batch consolidation (scripts/consolidatePatientData.js)                 *)
(***************************************************************************)
\* doc.toObject(): the paths of a document as a JSON object
RECURSIVE ToObjectOf(_, _)
ToObjectOf(doc, paths) ==
  IF paths = {} THEN <<>>
  ELSE LET path == CHOOSE q \in paths : TRUE
       IN <<<<path, doc[path]>>>> \o ToObjectOf(doc, paths \ {path})

ToObject(doc) == ToObjectOf(doc, DOMAIN doc)

\* extractFromReport: the fragment of a Report document
extractFromReport(reportData) ==
  [billId |-> IF Truthy(Field(reportData, "billId"))
      THEN Str(StringOf(Field(reportData, "billId")))
      ELSE Null,
   billIdNumber |-> Or(Field(reportData, "billId"), Null),
   testId |-> IF Truthy(Field(reportData, "testId"))
       THEN Str(StringOf(Field(reportData, "testId")))
       ELSE Null,
   testIdNumber |-> Or(Field(reportData, "testId"), Null),
   labReportId |-> Or(Field(reportData, "labReportId"), Null),
   reportStatus |-> Or(Field(reportData, "status"), Null),
   signingDoctor |-> Or(Field(reportData, "signingDoctor"), Null),
   reportBase64 |-> Or(Field(reportData, "reportBase64"), Null),
   sampleDate |-> IF Field(reportData, "sampleDate").t = "date"
       THEN Field(reportData, "sampleDate") ELSE (IF Truthy(Field(reportData, "sampleDate")) THEN NewDate(Field(reportData, "sampleDate"))
       ELSE Null),
   webhookMetadata |-> Obj(reportData)]

\* extractFromRequestDump: the fragment of a bill webhook body
extractFromRequestDump(requestData) ==
  [name |-> Or(Or(Field(requestData, "Patient Name"), Field(requestData, "patientName")), Null),
   designation |-> Or(Field(requestData, "Patient Designation"), Null),
   age |-> IF Truthy(Field(requestData, "Patient Age"))
       THEN parseInt(Field(requestData, "Patient Age"))
       ELSE Null,
   gender |-> Or(Or(Field(requestData, "Patient gender"), Field(requestData, "gender")), Null),
   dateOfBirthString |-> Or(Field(requestData, "Patient Dob"), Null),
   email |-> Or(Or(Field(requestData, "patient_email"), Field(requestData, "email")), Null),
   phone |-> Or(Or(Or(Field(requestData, "Mobile Number"), Field(requestData, "Patient Contact")), Field(requestData, "phone")), Null),
   alternateContact |-> Or(Field(requestData, "Patient Alternate Contact"), Null),
   countryCode |-> Or(Or(Field(requestData, "country_code"), Field(requestData, "countryCode")), Null),
   address |-> Obj([street |-> Or(Field(requestData, "address"), Null),
                      city |-> Or(Field(requestData, "Org City"), Null),
                      state |-> Or(Field(requestData, "state"), Null),
                      zipCode |-> Or(Or(Field(requestData, "zip_code"), Field(requestData, "zipCode")), Null),
                      country |-> Null,
                      landmark |-> Or(Field(requestData, "landmark"), Null),
                      areaOfResidence |-> Or(Or(Field(requestData, "areaOfResidance"), Field(requestData, "areaOfResidence")), Null)]),
   patientIdNumber |-> Or(Or(Field(requestData, "Patient Id"), Field(requestData, "patientId")), Null),
   labPatientId |-> Or(Field(requestData, "labPatientId"), Null),
   ssnNumber |-> Or(Field(requestData, "ssnNumber"), Null),
   passportNumber |-> Or(Field(requestData, "passportNumber"), Null),
   ethnicity |-> Or(Field(requestData, "ethnicity"), Null),
   race |-> Or(Field(requestData, "race"), Null),
   billId |-> IF Truthy(Field(requestData, "billId"))
       THEN Str(StringOf(Field(requestData, "billId")))
       ELSE Null,
   billIdNumber |-> Or(Or(Field(requestData, "bill_id"), Field(requestData, "billId")), Null),
   billTotalAmount |-> Or(Field(requestData, "billTotalAmount"), Null),
   dueAmount |-> Or(Field(requestData, "dueAmount"), Null),
   billAdvance |-> Or(Field(requestData, "billAdvance"), Null),
   billConcession |-> Or(Field(requestData, "billConcession"), Null),
   billTime |-> IF Truthy(Field(requestData, "billTime")) /\ ~IsObjectType(Field(requestData, "billTime"))
       THEN NewDate(Field(requestData, "billTime"))
       ELSE Null,
   billComments |-> Or(Field(requestData, "billComments"), Null),
   billReferral |-> Or(Field(requestData, "billReferral"), Null),
   orderNumber |-> Or(Field(requestData, "orderNumber"), Null),
   testId |-> IF Truthy(Field(requestData, "testId"))
       THEN Str(StringOf(Field(requestData, "testId")))
       ELSE Null,
   testIdNumber |-> Or(Field(requestData, "testId"), Null),
   testName |-> Or(Or(Field(requestData, "testName"), Prop(Prop(First(Field(requestData, "billInfoDetails")), "TestDetails"), "TestName")), Null),
   testCode |-> Or(Or(Field(requestData, "testCode"), Prop(Prop(First(Field(requestData, "billInfoDetails")), "TestDetails"), "TestCode")), Null),
   departmentName |-> Or(Field(requestData, "departmentName"), Null),
   labId |-> Or(Or(Prop(Field(requestData, "labId"), "labId"), Field(requestData, "labId")), Null),
   labName |-> Or(Prop(Field(requestData, "labId"), "labName"), Null),
   orgId |-> Or(Or(Prop(Field(requestData, "orgId"), "orgId"), Field(requestData, "orgId")), Null),
   orgName |-> Or(Prop(Field(requestData, "orgId"), "orgFullName"), Null),
   orgCode |-> Or(Field(requestData, "Org Code"), Null),
   orgType |-> Or(Field(requestData, "org Type"), Null),
   orgEmail |-> Or(Field(requestData, "Org email"), Null),
   orgContact |-> Or(Field(requestData, "Org Contact"), Null),
   orgAddress |-> Or(Field(requestData, "Org Address"), Null),
   orgCity |-> Or(Field(requestData, "Org City"), Null),
   orgArea |-> Or(Field(requestData, "Org Area"), Null),
   referralType |-> Or(Field(requestData, "Referral Type"), Null),
   referralContact |-> Or(Field(requestData, "Referral Contact"), Null),
   referralEmail |-> Or(Field(requestData, "Referral Email"), Null),
   referralAddress |-> Or(Field(requestData, "Referral Address"), Null),
   referralCity |-> Or(Field(requestData, "Referral City"), Null),
   referralPincode |-> Or(Field(requestData, "Referral pincode"), Null),
   referralRegNo |-> Or(Field(requestData, "Referral RegNo"), Null),
   referralComments |-> Or(Field(requestData, "Referral comments"), Null),
   integrationPayload |-> Or(Field(requestData, "integration_payload"), Null),
   webhookMetadata |-> Obj(requestData)]

\* extractFromReportStatusTracker: the fragment of a report-status webhook body
extractFromReportStatusTracker(requestData) ==
  [name |-> Or(Field(requestData, "Patient Name"), Null),
   designation |-> Or(Field(requestData, "Patient Designation"), Null),
   age |-> IF Truthy(Field(requestData, "Age")) THEN parseInt(Field(requestData, "Age")) ELSE Null,
   gender |-> Or(Field(requestData, "Gender"), Null),
   phone |-> Or(Field(requestData, "Contact No"), Null),
   alternateContact |-> Or(Field(requestData, "alternateContact"), Null),
   alternateEmail |-> Or(Field(requestData, "alternateEmail"), Null),
   countryCode |-> Or(Field(requestData, "countryCodeOfPatient"), Null),
   patientIdNumber |-> Or(Field(requestData, "Patient Id"), Null),
   labPatientId |-> Or(Field(requestData, "labPatientId"), Null),
   billId |-> IF Truthy(Field(requestData, "billId"))
       THEN Str(StringOf(Field(requestData, "billId")))
       ELSE Null,
   billIdNumber |-> Or(Or(Field(requestData, "bill_id"), Field(requestData, "billId")), Null),
   billPaymentStatus |-> Or(Prop(First(Field(requestData, "reportDetails")), "billPaymentStatus"), Null),
   billPaymentMode |-> Or(Prop(First(Field(requestData, "reportDetails")), "billPaymentMode"), Null),
   billReferral |-> Or(Field(requestData, "billReferral"), Null),
   doctorNameFromReferral |-> extractDoctorNameFromReferral(Field(requestData, "billReferral")),
   testId |-> IF Truthy(Field(requestData, "testId"))
       THEN Str(StringOf(Field(requestData, "testId")))
       ELSE Null,
   testIdNumber |-> Or(Field(requestData, "testId"), Null),
   reportIdNumber |-> Or(Prop(First(Field(requestData, "reportDetails")), "Report Id"), Null),
   labReportId |-> Or(Prop(First(Field(requestData, "reportDetails")), "labReportId"), Null),
   sampleId |-> Or(Prop(First(Field(requestData, "reportDetails")), "sampleID"), Null),
   sampleDate |-> IF Truthy(Prop(First(Field(requestData, "reportDetails")), "Sample Date")) /\ ~IsObjectType(Prop(First(Field(requestData, "reportDetails")), "Sample Date"))
       THEN NewDate(Prop(First(Field(requestData, "reportDetails")), "Sample Date"))
       ELSE Null,
   accessionDate |-> IF Truthy(Prop(First(Field(requestData, "reportDetails")), "Accession Date")) /\ ~IsObjectType(Prop(First(Field(requestData, "reportDetails")), "Accession Date"))
       THEN NewDate(Prop(First(Field(requestData, "reportDetails")), "Accession Date"))
       ELSE Null,
   testName |-> Or(Prop(First(Field(requestData, "reportDetails")), "Test Name"), Null),
   testCode |-> Or(Prop(First(Field(requestData, "reportDetails")), "testCode"), Null),
   reportStatus |-> Or(Field(requestData, "status"), Null),
   signingDoctor |-> Or(Prop(First(Field(requestData, "reportDetails")), "Signing Doctor"), Null),
   doctorNameFromSigningDoctor |-> extractDoctorNameFromSigningDoctor(Prop(First(Field(requestData, "reportDetails")), "Signing Doctor")),
   reportBase64 |-> Or(Prop(First(Field(requestData, "reportDetails")), "reportBase64"), Null),
   fileAttachments |-> Or(Prop(First(Field(requestData, "reportDetails")), "fileAttachments"), Null),
   fileInputReport |-> Or(Prop(First(Field(requestData, "reportDetails")), "fileInputReport"), Null),
   isProfile |-> Or(Prop(First(Field(requestData, "reportDetails")), "isProfile"), Null),
   profileID |-> Or(Prop(First(Field(requestData, "reportDetails")), "profileID"), Null),
   reportDate |-> IF Truthy(Prop(First(Field(requestData, "reportDetails")), "Report Date")) /\ ~IsObjectType(Prop(First(Field(requestData, "reportDetails")), "Report Date"))
       THEN NewDate(Prop(First(Field(requestData, "reportDetails")), "Report Date"))
       ELSE Null,
   approvalDate |-> IF Truthy(Prop(First(Field(requestData, "reportDetails")), "Approval Date")) /\ ~IsObjectType(Prop(First(Field(requestData, "reportDetails")), "Approval Date"))
       THEN NewDate(Prop(First(Field(requestData, "reportDetails")), "Approval Date"))
       ELSE Null,
   reportFormatAndValues |-> Or(Prop(First(Field(requestData, "reportDetails")), "reportFormatAndValues"), Null),
   labId |-> Or(Field(requestData, "labId"), Null),
   orgId |-> Or(Field(requestData, "orgId"), Null),
   referralId |-> Or(Field(requestData, "referralId"), Null),
   integrationPayload |-> Or(Field(requestData, "integration_payload"), Null),
   webhookMetadata |-> Obj(requestData)]

\* extractFromSampleStatusTracker: the fragment of a sample-status webhook body
extractFromSampleStatusTracker(requestData) ==
  [email |-> Or(Field(requestData, "patientEmail"), Null),
   phone |-> Or(Field(requestData, "patientMobile"), Null),
   alternateEmail |-> Or(Field(requestData, "patientAlternateEmail"), Null),
   billId |-> IF Truthy(Field(requestData, "billId"))
       THEN Str(StringOf(Field(requestData, "billId")))
       ELSE Null,
   billIdNumber |-> Or(Or(Field(requestData, "bill_id"), Field(requestData, "billId")), Null),
   testId |-> IF Truthy(First(Field(requestData, "testID")))
       THEN Str(StringOf(First(Field(requestData, "testID"))))
       ELSE Null,
   testIdNumber |-> Or(First(Field(requestData, "testID")), Null),
   testCode |-> Or(First(Field(requestData, "testCode")), Null),
   sampleId |-> Or(Field(requestData, "sampleId"), Null),
   accessionDate |-> IF Truthy(Field(requestData, "accessionDate")) /\ ~IsObjectType(Field(requestData, "accessionDate"))
       THEN NewDate(Field(requestData, "accessionDate"))
       ELSE Null,
   labReportId |-> Or(First(Field(requestData, "CentreReportId")), Null),
   labId |-> Or(Field(requestData, "labId"), Null),
   integrationPayload |-> Or(Field(requestData, "integration_payload"), Null),
   webhookMetadata |-> Obj(requestData)]

DateFields == {"billTime", "sampleDate", "accessionDate", "dateOfBirth", "reportDate",
               "approvalDate"}

ConcatFields == {"signingDoctor", "fileAttachments", "reportFormatAndValues"}

\* [...x] of an array, a string or nothing
Spread(x) ==
  IF x.t = "array" THEN x.v
  ELSE IF x.t = "string" THEN [i \in 1..Len(x.v) |-> Str(<<x.v[i]>>)]
  ELSE <<>>

\* { ...a, ...b } of two JSON objects
SpreadObjects(a, b) ==
  [i \in 1..Len(a) |-> IF HasOwn(b, a[i][1]) THEN <<a[i][1], GetOwn(b, a[i][1])>> ELSE a[i]]
  \o SelectSeq(b, LAMBDA pair : ~HasOwn(a, pair[1]))

\* { ...(merged.address || {}), ...newData.address } without the null members
MergeAddress(old, new) ==
  LET base == IF old.t = "object" THEN old.v ELSE <<>>
      all == new.v @@ base
  IN Obj([k \in {q \in DOMAIN all : ~IsNull(all[q])} |-> all[k]])

\* a variant in which the later fragment always wins
MergeSetsAlways(existing, newData, key) == ~IsNull(newData[key])

\* mergePatientData: newData[key] is written over merged[key]
MergeSets(existing, newData, key) ==
  LET new == newData[key]
      old == Get(existing, key)
  IN IF IsNull(new) THEN FALSE
     ELSE IF key \in DateFields THEN new.t = "date" /\ new # InvalidDate
     ELSE IF key = "address" /\ new.t = "object" THEN TRUE
     ELSE IF new.t = "array" THEN TRUE
     ELSE IF new.t \in {"object", "id"} THEN new.t = "object" /\ new.v # <<>>
     ELSE IsNull(old) \/ old = Str(<<>>)

\* mergePatientData: the value written
MergeValue(existing, newData, key) ==
  LET new == newData[key]
      old == Get(existing, key)
  IN IF key \in DateFields THEN new
     ELSE IF key = "address" /\ new.t = "object" THEN MergeAddress(old, new)
     ELSE IF new.t = "array"
       THEN (IF key \in ConcatFields THEN Arr(Spread(old) \o new.v) ELSE new)
     ELSE IF new.t = "object"
       THEN Obj(SpreadObjects(IF old.t = "object" THEN old.v ELSE <<>>, new.v))
     ELSE new

mergePatientData(existing, newData) ==
  [key \in DOMAIN existing \cup {k \in DOMAIN newData : MergeSets(existing, newData, k)} |->
     IF key \in DOMAIN newData /\ MergeSets(existing, newData, key)
       THEN MergeValue(existing, newData, key)
       ELSE existing[key]]

sLABPAT == <<"L", "A", "B", "-", "P", "A", "T", "-">>

\* s.replace(/\s+/g, '')
RemoveSpaces(s) == SelectSeq(s, LAMBDA c : ~IsSpace(c))

\* s.replace(/\D/g, '')
OnlyDigits(s) == SelectSeq(s, LAMBDA c : c \in Digits)

\* s.substring(from): a negative start counts as 0
substringFrom(s, from) == SubSeq(s, (IF from < 0 THEN 0 ELSE from) + 1, Len(s))

\* the data for which generatePatientId throws a TypeError
generatePatientIdThrows(data) ==
  /\ ~Truthy(Get(data, "patientIdNumber"))
  /\ ~Truthy(Get(data, "labPatientId"))
  /\ ~Truthy(Get(data, "billId"))
  /\ Truthy(Get(data, "name")) /\ Truthy(Get(data, "phone"))
  /\ ~(IsStr(data.name) /\ IsStr(data.phone))

generatePatientId(data, time) ==
  IF Truthy(Get(data, "patientIdNumber")) THEN Str(sPAT \o StringOf(data.patientIdNumber))
  ELSE IF Truthy(Get(data, "labPatientId")) THEN Str(sLABPAT \o StringOf(data.labPatientId))
  ELSE IF Truthy(Get(data, "billId")) THEN Str(sBILL \o StringOf(data.billId))
  ELSE IF Truthy(Get(data, "name")) /\ Truthy(Get(data, "phone"))
    THEN LET namePart == toUpperCase(substring(RemoveSpaces(data.name.v), 0, 6))
             phonePart == substringFrom(OnlyDigits(data.phone.v), -4)
         IN Str(sPAT \o namePart \o <<"-">> \o phonePart)
  ELSE Str(sPAT \o NatToChars(time))

\* patientMap: the entries [key, data] of the Map in insertion order
MapHas(map, key) == \E i \in 1..Len(map) : map[i].key = key

MapGet(map, key) == IF MapHas(map, key) THEN map[CHOOSE i \in 1..Len(map) : map[i].key = key].data
                    ELSE <<>>

MapSet(map, key, data) ==
  IF MapHas(map, key)
    THEN [i \in 1..Len(map) |-> IF map[i].key = key THEN [key |-> key, data |-> data] ELSE map[i]]
    ELSE Append(map, [key |-> key, data |-> data])

\* String(x) of any value the comparisons of Step 5 meet
StringOrNull(x) == IF IsStr(x) \/ IsNum(x) THEN Str(StringOf(x)) ELSE Null

\* Steps 3 and 4: the first entry whose billId or billIdNumber is the fragment's
FindByBill(map, patientData) ==
  FindOne(map, LAMBDA e : \/ Get(e.data, "billId") = patientData.billId
                          \/ Get(e.data, "billIdNumber") = patientData.billIdNumber)

\* Step 5: the same, also across the string and the number form
FindByBillOfReport(map, patientData) ==
  FindOne(map, LAMBDA e :
    \/ Get(e.data, "billId") = patientData.billId
    \/ Get(e.data, "billIdNumber") = patientData.billIdNumber
    \/ Get(e.data, "billId") = StringOrNull(patientData.billIdNumber)
    \/ StringOrNull(Get(e.data, "billIdNumber")) = patientData.billId)

\* merged = mergePatientData(map.get(patientId) || {}, patientData);
\* merged.patientId = patientId; map.set(patientId, merged)
MergeInto(map, patientId, patientData) ==
  MapSet(map, patientId,
         [patientId |-> patientId] @@ mergePatientData(MapGet(map, patientId), patientData))

\* Step 1: the existing Patient documents
RECURSIVE Step1(_, _, _)
Step1(map, docs, i) ==
  IF i > Len(docs) THEN map
  ELSE LET data == [_id |-> Id(i)] @@ docs[i]
           key == IF Truthy(Get(data, "patientId")) THEN data.patientId
                  ELSE generatePatientId(data, 0)
       IN Step1(MapSet(map, key, data), docs, i + 1)

\* Steps 2 to 5 process the documents of one collection in order
RECURSIVE Step2(_, _, _, _)
Step2(map, dumps, i, time) ==
  IF i > Len(dumps) THEN map
  ELSE LET patientData == extractFromRequestDump(dumps[i].request)
       IN IF ~Truthy(patientData.name) \/ generatePatientIdThrows(patientData)
            THEN Step2(map, dumps, i + 1, time)
            ELSE Step2(MergeInto(map, generatePatientId(patientData, time), patientData),
                       dumps, i + 1, time)

\* Steps 3 and 4: the patient of the bill if the map holds one, else a generated id
TrackerPatientId(map, patientData, time) ==
  IF Truthy(patientData.billId) /\ FindByBill(map, patientData) # 0
       /\ Truthy(Get(map[FindByBill(map, patientData)].data, "patientId"))
    THEN map[FindByBill(map, patientData)].data.patientId
    ELSE generatePatientId(patientData, time)

RECURSIVE Step3(_, _, _, _)
Step3(map, trackers, i, time) ==
  IF i > Len(trackers) THEN map
  ELSE LET patientData == extractFromReportStatusTracker(trackers[i].request)
       IN IF generatePatientIdThrows(patientData)
               /\ ~(Truthy(patientData.billId) /\ FindByBill(map, patientData) # 0)
            THEN Step3(map, trackers, i + 1, time)
            ELSE Step3(MergeInto(map, TrackerPatientId(map, patientData, time), patientData),
                       trackers, i + 1, time)

RECURSIVE Step4(_, _, _, _)
Step4(map, trackers, i, time) ==
  IF i > Len(trackers) THEN map
  ELSE LET patientData == extractFromSampleStatusTracker(trackers[i].request)
       IN Step4(MergeInto(map, TrackerPatientId(map, patientData, time), patientData),
                trackers, i + 1, time)

\* Step 5: the patient of the bill, else the billId itself is the patientId
ReportPatientId(map, patientData) ==
  IF FindByBillOfReport(map, patientData) # 0
       /\ Truthy(Get(map[FindByBillOfReport(map, patientData)].data, "patientId"))
    THEN map[FindByBillOfReport(map, patientData)].data.patientId
  ELSE IF Truthy(patientData.billId) THEN patientData.billId
  ELSE Str(sBILL \o StringOf(patientData.billIdNumber))

RECURSIVE Step5(_, _, _)
Step5(map, docs, i) ==
  IF i > Len(docs) THEN map
  ELSE LET patientData == extractFromReport(ToObject([_id |-> Id(i)] @@ docs[i]))
       IN IF ~Truthy(patientData.billId) /\ ~Truthy(patientData.billIdNumber)
            THEN Step5(map, docs, i + 1)
            ELSE Step5(MergeInto(map, ReportPatientId(map, patientData), patientData),
                       docs, i + 1)

\* Date.now() during a run that started at time: the clock stands still
\* (tick = 0) or has advanced whenever the run has stored a document (tick = 1)
RunClock(time, tick, docs) == time + tick * Len(docs)

\* no doctor found or created: the collection as it is
NoDoctor(docs) == [doctors |-> docs, id |-> 0]

\* the doctor of name, unless an earlier source has given one already
LinkNext(linked, name, docId, time, tick) ==
  IF linked.id = 0 /\ Truthy(name)
    THEN findOrCreateDoctor(linked.doctors, name, docId, RunClock(time, tick, linked.doctors))
    ELSE linked

\* Step 6: the doctor of one entry, by the four sources in order of priority
LinkDoctor(docs, data, time, tick) ==
  LinkNext(LinkNext(LinkNext(LinkNext(NoDoctor(docs),
                                      Get(data, "doctorNameFromSigningDoctor"), Null, time, tick),
                             Get(data, "doctorNameFromReferral"), Get(data, "docId"), time, tick),
                    IF Get(data, "signingDoctor").t = "array"
                      THEN extractDoctorNameFromSigningDoctor(data.signingDoctor) ELSE Null,
                    Null, time, tick),
           IF Truthy(Get(data, "billReferral"))
             THEN extractDoctorNameFromReferral(data.billReferral) ELSE Null,
           Get(data, "docId"), time, tick)

\* Step 6: the entry with its doctor assigned and the temporary fields deleted
Assigned(data, linked) ==
  LET with == (IF linked.id # 0 THEN [assignedDoctor |-> Id(linked.id)] ELSE <<>>) @@ data
  IN [k \in DOMAIN with \ {"doctorNameFromReferral", "doctorNameFromSigningDoctor", "docId"} |->
        with[k]]

\* Step 6 for the entries from i on: the map and the Doctor collection afterwards
RECURSIVE Step6(_, _, _, _, _)
Step6Entry(map, i, time, tick, linked) ==
  Step6([map EXCEPT ![i].data = Assigned(@, linked)], linked.doctors, i + 1, time, tick)

Step6(map, docs, i, time, tick) ==
  IF i > Len(map) THEN [map |-> map, doctors |-> docs]
  ELSE Step6Entry(map, i, time, tick, LinkDoctor(docs, map[i].data, time, tick))

\* Object.keys(x).length === 0 of a value with typeof "object" that is no array;
\* whether an ObjectId has own enumerable keys depends on the driver (keyedIds)
NoOwnKeys(x, keyedIds) ==
  \/ x.t = "date"
  \/ x.t = "id" /\ ~keyedIds
  \/ x.t = "object" /\ (x.v = <<>> \/ DOMAIN x.v = {})

\* Step 7: the address without its null, undefined and empty members
CleanAddress(address) ==
  Obj([k \in {q \in DOMAIN address.v : Truthy(address.v[q]) \/ IsNum(address.v[q])} |->
         address.v[k]])

\* Step 7: the fields deleted from an entry whose address has been cleaned
Dropped(cleaned, keyedIds) ==
  {k \in DOMAIN cleaned :
     \/ k \in DateFields /\ (cleaned[k].t \in {"object", "array", "id"}
                             \/ cleaned[k] = InvalidDate)
     \/ IsNull(cleaned[k])
     \/ cleaned[k].t = "array" /\ cleaned[k].v = <<>>
     \/ NoOwnKeys(cleaned[k], keyedIds)}

Without(cleaned, dropped) == [k \in DOMAIN cleaned \ dropped |-> cleaned[k]]

\* Step 7: the clean-up of one entry before it is saved
CleanUp(data, keyedIds) ==
  IF Get(data, "address").t = "object"
    THEN Without([address |-> CleanAddress(data.address)] @@ data,
                 Dropped([address |-> CleanAddress(data.address)] @@ data, keyedIds))
    ELSE Without(data, Dropped(data, keyedIds))

\* Step 7 for the entries from i on: the Patient collection afterwards and the
\* kinds of document created; an entry without a name returns from the run
RECURSIVE Step7(_, _, _, _, _)
\* await Patient.create(patientData), whose error is caught per entry
Step7Create(map, docs, i, keyedIds, made, fresh) ==
  IF PatientInvalid(fresh) \/ DuplicateKey(docs, "patientId", fresh.patientId, 0)
    THEN Step7(map, docs, i + 1, keyedIds, made)
    ELSE Step7(map, Append(docs, fresh), i + 1, keyedIds, made \cup {"Patient"})

\* await Patient.findOneAndUpdate({ patientId }, { $set: patientData })
Step7Update(map, docs, i, keyedIds, made, ref, cast) ==
  IF PatientInvalid(cast)
    THEN Step7(map, docs, i + 1, keyedIds, made)
    ELSE Step7(map, [docs EXCEPT ![ref] = cast @@ @], i + 1, keyedIds, made)

Step7Save(map, docs, i, keyedIds, made, ref, cast) ==
  IF ref # 0
    THEN Step7Update(map, docs, i, keyedIds, made, ref, cast)
    ELSE Step7Create(map, docs, i, keyedIds, made, WithDefaults(cast, PatientDefaults))

Step7Entry(map, docs, i, keyedIds, made, patientData) ==
  IF ~Truthy(Get(patientData, "name")) THEN [patients |-> docs, created |-> made]
  ELSE Step7Save(map, docs, i, keyedIds, made,
                 FindOne(docs, LAMBDA d : Get(d, "patientId") = CastTrim(map[i].key)),
                 CastPatient(patientData))

Step7(map, docs, i, keyedIds, made) ==
  IF i > Len(map) THEN [patients |-> docs, created |-> made]
  ELSE Step7Entry(map, docs, i, keyedIds, made, CleanUp(map[i].data, keyedIds))

\* Steps 1 to 5: the patientMap built from the five collections
BuildMap(time) ==
  Step5(Step4(Step3(Step2(Step1(<<>>, patients, 1), requestDumps, 1, time),
                    reportStatusTrackers, 1, time),
              sampleStatusTrackers, 1, time),
        reports, 1)

\* the outcome of the script: the Patient and Doctor collections afterwards
BatchResult(saved, docs) ==
  [patients |-> saved.patients, doctors |-> docs,
   created |-> saved.created \cup (IF Len(docs) > Len(doctors) THEN {"Doctor"} ELSE {})]

\* Step 7 after Step 6
BatchSave(linked, keyedIds) ==
  BatchResult(Step7(linked.map, patients, 1, keyedIds, {}), linked.doctors)

\* consolidatePatientData: one run of the script over the store
consolidatePatientData(time, tick, keyedIds) ==
  BatchSave(Step6(BuildMap(time), doctors, 1, time, tick), keyedIds)

\* the store and the clock after one run
BatchDone(after, time, tick) ==
  /\ now' = RunClock(time, tick, after.doctors)
  /\ patients' = after.patients
  /\ doctors' = after.doctors
  /\ log' = Append(log, Entry("consolidatePatientData", Null, <<>>, 0, after.created))

\* one run of the batch consolidation script
ConsolidatePatientData ==
  /\ calls < MaxCalls
  /\ calls' = calls + 1
  /\ \E tick \in 0..1 : \E keyedIds \in BOOLEAN :
       BatchDone(consolidatePatientData(now + tick, tick, keyedIds), now + tick, tick)
  /\ UNCHANGED <<labs, reports, requestDumps, reportStatusTrackers, sampleStatusTrackers,
                 files, emails, procs>>

(***************************************************************************)
(* The requests of the model                                               *)
(***************************************************************************)
sReportA == <<"7">>

sReportB == <<"8">>

sPatientA == <<"P", "1">>

sAnn == <<"A", "n", "n">>

sPhoneA == <<"5", "5", "5">>

sDrS == <<"D", "r", ".", " ", "S">>

sDRS == <<"D", "R", ".", " ", "S">>

sAPlusB == <<"a", "+", "b">>

sMailA == <<"x", "@", "y", ".", "z">>

sMailB == <<"w", "@", "y", ".", "z">>

sLabL == <<"L">>

sPdfData == <<"Q", "Q", "=", "=">>

\* a first, complete report event
PayloadFull ==
  <<<<"reportId", Str(sReportA)>>, <<"patientId", Str(sPatientA)>>,
    <<"patientName", Str(sAnn)>>, <<"patientAge", Str(<<"2", "6", " ", "y">>)>>,
    <<"patientGender", Str(sFemale)>>, <<"patientPhone", Str(sPhoneA)>>,
    <<"patientEmail", Str(sMailA)>>, <<"orgCity", Str(<<"G", "o", "a">>)>>,
    <<"doctorName", Str(sDrS)>>, <<"labName", Str(sLabL)>>, <<"labId", Str(<<"1">>)>>,
    <<"reportBase64", Str(sPdfData)>>, <<"status", Str(sCompleted)>>,
    <<"billId", Num(5)>>>>

\* a later event of the same report and patient that repeats no demographics
PayloadSparse ==
  <<<<"reportId", Str(sReportA)>>, <<"patientId", Str(sPatientA)>>,
    <<"doctorName", Str(sDRS)>>, <<"reportBase64", Str(sPdfData)>>,
    <<"status", Str(sPending)>>>>

\* an event that names no report
PayloadNoReport ==
  <<<<"patientId", Str(sPatientA)>>, <<"patientName", Str(sAnn)>>,
    <<"doctorName", Str(sDrS)>>, <<"reportBase64", Str(sPdfData)>>>>

\* an event without a patient identifier, its doctor name holds a "+"
PayloadPlusA ==
  <<<<"reportId", Str(sReportB)>>, <<"patientName", Str(sAnn)>>,
    <<"doctorName", Str(sAPlusB)>>, <<"referralEmail", Str(sMailA)>>>>

PayloadPlusB ==
  <<<<"reportId", Str(sReportB)>>, <<"patientName", Str(sAnn)>>,
    <<"doctorName", Str(sAPlusB)>>, <<"referralEmail", Str(sMailB)>>>>

Payloads == {PayloadFull, PayloadSparse, PayloadNoReport, PayloadPlusA, PayloadPlusB}

\* the x-webhook-token header: the secret, another value, or no header
GoodToken == Str(WebhookSecret)

BadTokens == {Null, Str(<<"x">>)}

\* the report webhook requests: every payload with the secret, one payload without
WebhookRequests ==
  {<<GoodToken, payload>> : payload \in Payloads}
  \cup {<<token, PayloadFull>> : token \in BadTokens}

\* the store before any request
Empty ==
  /\ patients = <<>>
  /\ doctors = <<>>
  /\ labs = <<>>
  /\ reports = <<>>
  /\ requestDumps = <<>>
  /\ reportStatusTrackers = <<>>
  /\ sampleStatusTrackers = <<>>
  /\ files = <<>>
  /\ emails = 0
  /\ now = 1
  /\ calls = 0
  /\ procs = [p \in Procs |-> IdleProc]
  /\ log = <<>>

Init == Empty /\ merged = <<>> /\ call = NoCall /\ immediates = <<>>

\* one step of a handleWebhook request that has started
HandleWebhookStep(p) ==
  \/ PatientFind(p)
  \/ PatientSave(p)
  \/ DoctorFind(p)
  \/ DoctorSave(p)
  \/ LabFindById(p)
  \/ LabFindByName(p)
  \/ LabSave(p)
  \/ AssignDoctor(p)
  \/ CountPatients(p)
  \/ SaveCount(p)
  \/ ReportFind(p)
  \/ ReportWrite(p)
  \/ ReportSave(p)
  \/ ReportPush(p)
  \/ Respond(p)

\* requests are processed one after the other
WebhookStart ==
  /\ Idle
  /\ \E r \in WebhookRequests : HandleWebhookBegin(1, r[1], r[2])
  /\ UNCHANGED locals

WebhookRun == HandleWebhookStep(1) /\ UNCHANGED locals

Next ==
  \/ WebhookStart
  \/ WebhookRun

Spec == Init /\ [][Next]_vars

(***************************************************************************)
(* The whole ingestion: every endpoint, the consolidation service and the  *)
(* batch script, one request or run after the other                        *)
(***************************************************************************)
sBillA == <<"5">>

\* a bill webhook body: patient 8 of bill 5, referred by a doctor and a clinic
BillBody ==
  <<<<"billId", Num(5)>>, <<"Patient Name", Str(sAnn)>>, <<"Patient Id", Num(8)>>,
    <<"Mobile Number", Str(<<"5", "5", "5", "-", "2">>)>>,
    <<"billReferral", Str(<<"D", "R", ".", " ", "S", " ", ";", " ", "C">>)>>>>

\* a report-status webhook body of bill 5, signed by a doctor
ReportStatusBody ==
  <<<<"billId", Num(5)>>, <<"status", Str(<<"R", "e", "p", "o", "r", "t", " ", "S", "i", "g", "n", "e", "d">>)>>,
    <<"reportDetails",
      Arr(<<Obj(<<<<"Signing Doctor", Arr(<<Obj(<<<<"Signing Doctor 1", Str(sDrS)>>>>)>>)>>,
                  <<"Sample Date", Str(<<"2", "0", "2", "4">>)>>>>)>>)>>>>

\* a sample-status webhook body of a bill no other source names
SampleStatusBody ==
  <<<<"billId", Num(6)>>, <<"patientMobile", Str(sPhoneA)>>>>

\* the requests and runs of the whole ingestion
StoreWebhook ==
  /\ Idle
  /\ \E payload \in {PayloadFull, PayloadPlusA} : HandleWebhookBegin(1, GoodToken, payload)
  /\ UNCHANGED locals

BillGenerate ==
  /\ Idle
  /\ \E token \in {GoodToken, Null} : billGenerateHandler(token, BillBody)
  /\ UNCHANGED locals

PatientRegister == Idle /\ patientRegisterHandler(Null, BillBody) /\ UNCHANGED locals

\* a report-status webhook body of bill 5 with the status of a delivered PDF
ReportStatusBodyPdf ==
  <<<<"billId", Num(5)>>,
    <<"status", Str(<<"R", "e", "p", "o", "r", "t", " ", "P", "D", "F", " ", "(", "W", "e", "b", "h", "o", "o", "k", ")">>)>>>>

\* a report-status webhook body of bill 7 that names its patient
ReportStatusBodyNamed ==
  <<<<"billId", Num(7)>>, <<"Patient Name", Str(<<"B", "o", "b">>)>>,
    <<"status", Str(sCompleted)>>>>

TrackReportStatus ==
  /\ Idle
  /\ \E body \in {ReportStatusBody, ReportStatusBodyPdf, ReportStatusBodyNamed} :
       trackReportStatusHandler(Null, body)
  /\ UNCHANGED locals

TrackSampleStatus ==
  Idle /\ trackSampleStatusHandler(Null, SampleStatusBody) /\ UNCHANGED locals

ConsolidateBill ==
  Idle /\ ConsolidatePatientFromBillId(Num(5), Null) /\ UNCHANGED locals

ConsolidateAll == Idle /\ ConsolidatePatientData /\ UNCHANGED locals

NextStore ==
  \/ StoreWebhook
  \/ WebhookRun
  \/ BillGenerate
  \/ PatientRegister
  \/ TrackReportStatus
  \/ TrackSampleStatus
  \/ ConsolidateBill
  \/ ConsolidateAll

SpecStore == Init /\ [][NextStore]_vars

(***************************************************************************)
(* Properties                                                              *)
(***************************************************************************)
\* the positions i of the log where a report webhook was accepted (200) and
\* the next answered request is a report webhook with the same body
RepeatedAt ==
  {i \in 1..(Len(log) - 1) :
     /\ log[i].op = "handleWebhook" /\ log[i].status = 200
     /\ log[i + 1].op = "handleWebhook" /\ log[i + 1].payload = log[i].payload
     /\ ~InvalidToken(log[i + 1].token)}

PatientsWithId(patientId) ==
  {k \in 1..Len(patients) : Get(patients[k], "patientId") = patientId}

ReportsWithId(reportId) ==
  {k \in 1..Len(reports) : Get(reports[k], "reportId") = reportId}

\* C1: when handleWebhook processes an accepted payload a second time in
\* sequence, the second call creates no Patient and no Report, and the store
\* holds exactly one Patient with the payload's patient identifier and exactly
\* one Report with its reportId.
C1_Idempotent ==
  \A i \in RepeatedAt :
    LET fields == extractPayloadFields(log[i].payload).knownFields
    IN /\ log[i + 1].created \cap {"Patient", "Report"} = {}
       /\ Cardinality(PatientsWithId(CastTrim(WebhookPatientId(fields, 0)))) = 1
       /\ Cardinality(ReportsWithId(CastTrim(fields.reportId))) = 1

\* a payload has been accepted twice in a row
C1_Witness ==
  \E i \in RepeatedAt : log[i + 1].status = 200 /\ log[i].created = {"Patient", "Doctor", "Lab", "Report"}

(***************************************************************************)
(* Concurrent deliveries: the requests of two connections interleave at    *)
(* their awaits                                                            *)
(***************************************************************************)
\* two events of the same report
ConcurrentPayloads == {PayloadFull, PayloadSparse}

\* The start of a request touches no document, so a request that starts while
\* another is under way is represented by one that starts before the other's
\* first query and waits; the second connection is used when the first is busy.
ConcurrentStart ==
  \E p \in Procs : \E payload \in ConcurrentPayloads :
    /\ \A q \in Procs \ {p} : procs[q].pc \in {"idle", "patientFind"}
    /\ p = 2 => procs[1].pc # "idle"
    /\ calls < MaxConcurrent
    /\ HandleWebhookBegin(p, GoodToken, payload)
    /\ UNCHANGED locals

ConcurrentRun == (\E p \in Procs : HandleWebhookStep(p)) /\ UNCHANGED locals

NextConcurrent ==
  \/ ConcurrentStart
  \/ ConcurrentRun

SpecConcurrent == Init /\ [][NextConcurrent]_vars

\* C2: whatever the interleaving of concurrent handleWebhook calls, no two
\* Report documents of the store carry the same reportId.
C2_OneReportPerId ==
  \A i \in 1..Len(reports) : \A j \in 1..Len(reports) :
    Get(reports[i], "reportId") = Get(reports[j], "reportId") => i = j

\* two calls for the same reportId are past the lookup that found no report,
\* and one of them has stored its report
C2_Witness ==
  /\ procs[1].pc = "reportSave" /\ procs[2].pc = "reportPush"
  /\ procs[1].reportRef = 0
  /\ procs[1].fields.reportId = procs[2].fields.reportId
  /\ Len(reports) = 1

\* every Patient document of the store keeps its place and its patientId
PatientIdKept ==
  \A k \in 1..Len(patients) :
    /\ k <= Len(patients')
    /\ Get(patients'[k], "patientId") = Get(patients[k], "patientId")

PatientIdUnique ==
  \A i \in 1..Len(patients) : \A j \in 1..Len(patients) :
    Get(patients[i], "patientId") = Get(patients[j], "patientId") => i = j

\* C3: no step of handleWebhook, of consolidatePatientFromBillId or of the
\* batch consolidation changes the patientId of a Patient that exists, and
\* after every step no two Patients share a patientId.
C3_PatientIdStable == [][PatientIdKept /\ PatientIdUnique']_vars

\* a Patient created by a webhook has since been updated by the service and
\* gone through a run of the batch consolidation
C3_Witness ==
  /\ Len(log) = 3
  /\ log[1].op = "handleWebhook" /\ "Patient" \in log[1].created
  /\ log[2].op = "consolidatePatientFromBillId"
  /\ log[3].op = "consolidatePatientData"
  /\ Truthy(Get(patients[1], "reportStatus"))

(***************************************************************************)
(* mergePatientData on its own: the record of one patient, to which the    *)
(* fragments of later documents are merged one after the other             *)
(***************************************************************************)
MaxMerges == 2

sPhoneOld == <<"5", "5", "5", "-", "1", "1", "1", "1">>

sPhoneNew == <<"5", "5", "5", "-", "2", "2", "2", "2">>

sGoa == <<"G", "o", "a">>

sPune == <<"P", "u", "n", "e">>

sGA == <<"G", "A">>

\* the values a field of the record has before a merge; <<>> is undefined
Held(key, values) == {<<>>} \cup {[k \in {key} |-> v] : v \in values}

\* the records a merge starts from
Existings ==
  {phone @@ status @@ age @@ address :
     phone \in Held("phone", {Null, Str(<<>>), Str(sPhoneOld)}),
     status \in Held("reportStatus", {Str(sRegistered)}),
     age \in Held("age", {Num(0)}),
     address \in Held("address", {Obj([city |-> Str(sGoa)])})}

\* the fragments merged into them: every extractor writes null for what it lacks
Fragments ==
  {[phone |-> phone, reportStatus |-> status, age |-> age, billTime |-> billTime,
    address |-> address] :
     phone \in {Null, Str(sPhoneNew)}, status \in {Null, Str(sCompleted)},
     age \in {Null, Num(41)}, billTime \in {Null, DateValue(3)},
     address \in {Null, Obj([city |-> Str(sPune), state |-> Null]),
                  Obj([city |-> Null, state |-> Str(sGA)])}}

InitMerge == Empty /\ merged \in Existings /\ call = NoCall /\ immediates = <<>>

\* merged = mergePatientData(merged, newData)
MergePatientData ==
  /\ calls < MaxMerges
  /\ calls' = calls + 1
  /\ \E newData \in Fragments :
       /\ merged' = mergePatientData(merged, newData)
       /\ log' = Append(log, Entry("mergePatientData", Null, newData, 0, {}))
  /\ UNCHANGED <<store, now, procs, call, immediates>>

NextMerge == MergePatientData

SpecMerge == InitMerge /\ [][NextMerge]_vars

(***************************************************************************)
(* Properties of the doctors, the endpoints and the merge                  *)
(***************************************************************************)
\* C4: after any sequence of webhooks processed one after the other, no two
\* Doctor documents have names that are equal when case is ignored.
C4_NoTwoDoctorsSameName ==
  \A i \in 1..Len(doctors) : \A j \in 1..Len(doctors) :
    toLowerCase(Get(doctors[i], "name").v) = toLowerCase(Get(doctors[j], "name").v) => i = j

\* the request answered by this step
Answered == log'[Len(log')]

\* this step answers a request of one of the endpoints ops
Answers(ops) == Len(log') = Len(log) + 1 /\ Answered.op \in ops

Endpoints == {"handleWebhook", "billGenerateHandler", "patientRegisterHandler",
              "trackReportStatusHandler", "trackSampleStatusHandler"}

\* C5: at every endpoint a request whose x-webhook-token is missing or wrong
\* is rejected (401) and leaves every collection as it was.
C5_BadTokenRejected ==
  [][Answers(Endpoints) /\ InvalidToken(Answered.token)
       => Answered.status = 401 /\ store' = store]_vars

\* C6: a handleWebhook request with the right token whose payload yields no
\* reportId is answered 400 in its first step, before any document, file or
\* e-mail: nothing is created and the store is as before.
C6_MissingReportId ==
  [][Answers({"handleWebhook"}) /\ ~InvalidToken(Answered.token)
       /\ ~Truthy(extractPayloadFields(Answered.payload).knownFields.reportId)
       => Answered.status = 400 /\ Answered.created = {} /\ Idle /\ store' = store]_vars

C6_Witness ==
  \E i \in 2..Len(log) :
    /\ log[i].op = "handleWebhook" /\ log[i].status = 400 /\ ~InvalidToken(log[i].token)
    /\ ~Truthy(extractPayloadFields(log[i].payload).knownFields.reportId)
    /\ log[i - 1].status = 200 /\ Len(patients) = 1 /\ Len(reports) = 1

\* null, undefined or the empty string
Unpopulated(x) == IsNull(x) \/ x = Str(<<>>)

\* the keys of a fragment whose value is a string or a number and no date field
ScalarKeys(newData) ==
  {k \in DOMAIN newData \ DateFields : IsStr(newData[k]) \/ IsNum(newData[k])}

\* C7: mergePatientData keeps the existing value of every scalar key that is
\* populated, and takes the fragment's value where the existing one is null,
\* undefined or the empty string.
C7_ScalarFirstWins ==
  [][Answers({"mergePatientData"}) =>
       \A k \in ScalarKeys(Answered.payload) :
         Get(merged', k) = IF Unpopulated(Get(merged, k)) THEN Answered.payload[k]
                           ELSE Get(merged, k)]_vars

C7_Witness ==
  /\ Len(log) = 2 /\ log[2].op = "mergePatientData"
  /\ log[1].payload.phone = Str(sPhoneNew) /\ log[2].payload.phone = Str(sPhoneNew)
  /\ log[2].payload.age = Num(41)
  /\ Get(merged, "phone") = Str(sPhoneOld) /\ Get(merged, "age") = Num(41)

\* C8: a fragment that carries a status gives the merged record that status,
\* whatever status the record had.
C8_StatusTakesLatest ==
  [][Answers({"mergePatientData"}) /\ Truthy(Answered.payload.reportStatus)
       => Get(merged', "reportStatus") = Answered.payload.reportStatus]_vars

Demographics == {"name", "age", "gender", "phone", "email", "address"}

\* C9: when handleWebhook updates an existing Patient, every demographic field
\* that was populated keeps its value.
C9_DemographicsKept ==
  [][\A p \in Procs :
       procs[p].pc = "patientSave" /\ procs[p].patientRef # 0 /\ procs'[p].pc = "doctorFind"
       => \A f \in Demographics :
            Unpopulated(Get(patients[procs[p].patientRef], f))
            \/ Get(patients'[procs[p].patientRef], f) = Get(patients[procs[p].patientRef], f)]_vars

\* the patientId of the fixed order of rules
RulePatientId(explicit, labId, billId, name, phone, time) ==
  IF Truthy(explicit) THEN Str(sPAT \o StringOf(explicit))
  ELSE IF Truthy(labId) THEN Str(sLABPAT \o StringOf(labId))
  ELSE IF Truthy(billId) THEN Str(sBILL \o StringOf(billId))
  ELSE IF Truthy(name) /\ Truthy(phone)
    THEN generatePatientId([name |-> name, phone |-> phone], time)
  ELSE Str(sPAT \o NatToChars(time))

\* C10: the patientId of a Patient that handleWebhook creates is given by the
\* first applicable rule: "PAT-" + the explicit identifier of the payload, else
\* "BILL-" + the bill identifier, else the name and phone, else the clock.
C10_PatientIdByRule ==
  [][\A p \in Procs :
       procs[p].pc = "patientSave" /\ Len(patients') = Len(patients) + 1
       => Get(patients'[Len(patients')], "patientId")
            = RulePatientId(procs[p].fields.patientId, Null, procs[p].fields.billId,
                            procs[p].fields.patientName, procs[p].fields.patientPhone, now)]_vars

(***************************************************************************)
(* The helper functions of the field extractor on their own: each action   *)
(* is one call of a helper, and call holds its arguments and its result.   *)
(***************************************************************************)
Called(op, args, result) == [op |-> op, args |-> args, result |-> result]

\* the payload keys of the calls of findField, each with the value it carries
FieldKeys == {"reportId", "ReportId", "ID", "id"}

FieldValue(key) ==
  CASE key = "ID" -> Str(<<"x">>)
    [] key = "id" -> Str(<<"y">>)
    [] key = "ReportId" -> Str(<<" ", "R", "1", " ">>)
    [] key = "reportId" -> Str(<<"N", "/", "A">>)

FieldPayloads ==
  {<<>>} \cup {<<<<k, FieldValue(k)>>>> : k \in FieldKeys}
         \cup {<<<<k[1], FieldValue(k[1])>>, <<k[2], FieldValue(k[2])>>>> :
                  k \in {kk \in FieldKeys \X FieldKeys : kk[1] # kk[2]}}

FieldCandidates ==
  {<<"ID", "id">>, <<"id", "ID">>, <<"reportId", "ID">>, <<"ReportId", "reportId">>}

\* strings handed to cleanFieldValue
CleanStrings ==
  { Str(<<>>),
    Str(<<" ">>),
    Str(<<"-">>),
    Str(<<" ", "-", " ">>),
    Str(<<"n", "/", "a">>),
    Str(<<"N", "/", "A">>),
    Str(<<" ", "N", "/", "a", " ">>),
    Str(<<"n", "u", "l", "l">>),
    Str(<<"N", "U", "L", "L">>),
    Str(<<" ", "N", "u", "l", "l">>),
    Str(<<"x">>),
    Str(<<" ", "x", " ">>),
    Str(<<"\t", "x", "\n">>),
    Str(<<"\t", "-", "\n">>),
    Str(<<"-", "-">>),
    Str(<<"n", "/", "a", ".">>),
    Str(<<"n", "u", "l", "l", "s">>),
    Str(<<"a", " ", "b">>),
    Str(<<"n", "a">>) }

\* strings handed to parseAge
AgeStrings ==
  { Str(<<"2", "6", " ", "y", "e", "a", "r", "s">>),
    Str(<<"u", "n", "k", "n", "o", "w", "n">>),
    Str(<<"2", "6">>),
    Str(<<"2", "6", "y">>),
    Str(<<"a", "g", "e", " ", "7", " ", "a", "n", "d", " ", "1", "2">>),
    Str(<<"0">>),
    Str(<<"0", "0", "7">>),
    Str(<<"y", "2", "6", "y">>),
    Str(<<"y", "e", "a", "r", "s">>) }

\* strings handed to the status normalizers
StatusStrings ==
  { Str(<<"r", "e", "p", "o", "r", "t", " ", "d", "e", "l", "i", "v", "e", "r", "e", "d">>),
    Str(<<"R", "e", "p", "o", "r", "t", " ", "D", "e", "l", "i", "v", "e", "r", "e", "d">>),
    Str(<<"R", "E", "P", "O", "R", "T", " ", "D", "E", "L", "I", "V", "E", "R", "E", "D">>),
    Str(<<"R", "e", "p", "o", "r", "t", " ", "P", "D", "F", " ", "(", "W", "e", "b", "h", "o", "o", "k", ")">>),
    Str(<<"o", "n", " ", "h", "o", "l", "d">>),
    Str(<<"O", "n", " ", "H", "o", "l", "d">>),
    Str(<<"x", "y", "z", "1", "2", "3">>),
    Str(<<"c", "o", "n", "s", "t", "r", "u", "c", "t", "o", "r">>),
    Str(<<"_", "_", "p", "r", "o", "t", "o", "_", "_">>),
    Str(<<"C", "o", "n", "s", "t", "r", "u", "c", "t", "o", "r">>),
    Str(<<"s", "e", "n", "t">>),
    Str(<<"a", "l", "l", " ", "d", "o", "n", "e">>),
    Str(<<"p", "a", "u", "s", "e", "d">>),
    Str(<<"c", "a", "n", "c", "e", "l", " ", "i", "t">>),
    Str(<<"r", "e", "p", "o", "r", "t", " ", "o", "n", " ", "h", "o", "l", "d">>),
    Str(<<"d", "e", "l", "i", "v", "e", "r", "e", "d", " ", "a", "n", "d", " ", "d", "o", "n", "e">>),
    Str(<<"r", "e", "g", "i", "s", "t", "e", "r", "e", "d">>),
    Str(<<"p", "e", "n", "d", "i", "n", "g">>),
    Str(<<"r", "e", "v", "i", "e", "w", "e", "d">>),
    Str(<<"a", "r", "c", "h", "i", "v", "e", "d">>),
    Str(<<"u", "n", "d", "e", "r", " ", "a", "n", "a", "l", "y", "s", "i", "s">>),
    Str(<<"s", "a", "m", "p", "l", "e">>) }

\* strings handed to normalizeSpecialty
SpecialtyStrings ==
  { Str(<<"c", "a", "r", "d", "i", "o", "l", "o", "g", "y">>),
    Str(<<"C", "a", "r", "d", "i", "o", "l", "o", "g", "y">>),
    Str(<<"h", "e", "a", "r", "t", " ", "s", "p", "e", "c", "i", "a", "l", "i", "s", "t">>),
    Str(<<"h", "e", "a", "r", "t", " ", "c", "l", "i", "n", "i", "c">>),
    Str(<<"s", "k", "i", "n">>),
    Str(<<"e", "y", "e", " ", "s", "u", "r", "g", "e", "r", "y">>),
    Str(<<"g", "e", "n", "e", "r", "a", "l", " ", "s", "u", "r", "g", "e", "o", "n">>),
    Str(<<"x", "y", "z", "1", "2", "3">>),
    Str(<<"c", "o", "n", "s", "t", "r", "u", "c", "t", "o", "r">>),
    Str(<<"_", "_", "p", "r", "o", "t", "o", "_", "_">>),
    Str(<<"o", "t", "h", "e", "r">>),
    Str(<<"O", "T", "H", "E", "R">>),
    Str(<<"n", "e", "u", "r", "o", " ", "o", "n", "c", "o", "l", "o", "g", "y">>),
    Str(<<"p", "h", "y", "s", "i", "c", "a", "l", " ", "t", "h", "e", "r", "a", "p", "y">>),
    Str(<<"t", "o", "o", "t", "h">>),
    Str(<<"a", "n", "e", "s", "t", "h", "e", "t", "i", "c", "s">>),
    Str(<<"o", "r", "t", "h", "o", "p", "e", "d", "i", "c", " ", "s", "u", "r", "g", "e", "o", "n">>),
    Str(<<"o", "b", "g">>),
    Str(<<"n", "o", "n", "e">>),
    Str(<<"d", "e", "r", "m", "a", " ", "a", "n", "d", " ", "c", "a", "r", "d", "i", "o">>) }

\* values that are not strings
NonStrings == {Null, Num(0), Num(5), Num(26), Arr(<<>>), Obj(<<>>)}

FindFieldCall ==
  \E payload \in FieldPayloads, possibleNames \in FieldCandidates :
    /\ call' = Called("findField", <<payload, possibleNames>>, findField(payload, possibleNames))
    /\ UNCHANGED <<store, now, calls, procs, log, merged, immediates>>

CleanFieldValueCall ==
  \E value \in CleanStrings \cup NonStrings :
    /\ call' = Called("cleanFieldValue", <<value>>, cleanFieldValue(value))
    /\ UNCHANGED <<store, now, calls, procs, log, merged, immediates>>

ParseAgeCall ==
  \E ageValue \in AgeStrings \cup NonStrings :
    /\ call' = Called("parseAge", <<ageValue>>, parseAge(ageValue))
    /\ UNCHANGED <<store, now, calls, procs, log, merged, immediates>>

NormalizePatientStatusCall ==
  \E statusValue \in StatusStrings \cup NonStrings \cup {Str(<<>>)} :
    /\ call' = Called("normalizePatientStatus", <<statusValue>>, normalizePatientStatus(statusValue))
    /\ UNCHANGED <<store, now, calls, procs, log, merged, immediates>>

NormalizeReportStatusCall ==
  \E statusValue \in StatusStrings \cup NonStrings \cup {Str(<<>>)} :
    /\ call' = Called("normalizeReportStatus", <<statusValue>>, normalizeReportStatus(statusValue))
    /\ UNCHANGED <<store, now, calls, procs, log, merged, immediates>>

NormalizeSpecialtyCall ==
  \E specialtyValue \in SpecialtyStrings \cup NonStrings \cup {Str(<<>>)} :
    /\ call' = Called("normalizeSpecialty", <<specialtyValue>>, normalizeSpecialty(specialtyValue))
    /\ UNCHANGED <<store, now, calls, procs, log, merged, immediates>>

\* the names and phones of patient data that carries nothing else
NameStrings == {Str(sAnn), Str(<<"A", "n", "n", " ", "L", "e", "e", " ", "R", "o", "y">>)}

PhoneStrings == {Str(sPhoneA), Str(sPhoneOld), Str(<<"9", "8", "7", "6", "5", "4">>)}

GeneratePatientIdCall ==
  \E name \in NameStrings : \E phone \in PhoneStrings :
    /\ call' = Called("generatePatientId", <<name, phone>>,
                      generatePatientId([name |-> name, phone |-> phone], now))
    /\ UNCHANGED <<store, now, calls, procs, log, merged, immediates>>

\* a bill webhook body of another patient: patient 9 of bill 6
BillBodyOther ==
  <<<<"billId", Num(6)>>, <<"Patient Name", Str(<<"B", "o", "b">>)>>, <<"Patient Id", Num(9)>>>>

\* the patientMap after Step 2 over the bills of the two patients
TwoPatientsMap(time) ==
  Step2(<<>>, <<[request |-> BillBody], [request |-> BillBodyOther]>>, 1, time)

\* report-status and sample-status bodies: the bill of one patient with the
\* Patient Id of the other, the bill and the Patient Id of one patient, an
\* unknown bill, a bill alone
TrackerBodies ==
  {<<<<"billId", Num(6)>>, <<"Patient Id", Num(8)>>>>,
   <<<<"billId", Num(5)>>, <<"Patient Id", Num(8)>>>>,
   <<<<"billId", Num(7)>>, <<"Patient Id", Num(9)>>>>,
   <<<<"billId", Num(6)>>>>}

TrackerFragments ==
  {extractFromReportStatusTracker(body) : body \in TrackerBodies}
  \cup {extractFromSampleStatusTracker(body) : body \in TrackerBodies}

\* Steps 3 and 4: the patientMap entry that a fragment is merged into
TrackerPatientIdCall ==
  \E patientData \in TrackerFragments :
    /\ call' = Called("TrackerPatientId", <<TwoPatientsMap(now), patientData>>,
                      TrackerPatientId(TwoPatientsMap(now), patientData, now))
    /\ UNCHANGED <<store, now, calls, procs, log, merged, immediates>>

NextHelpers ==
  \/ TrackerPatientIdCall
  \/ FindFieldCall
  \/ CleanFieldValueCall
  \/ ParseAgeCall
  \/ NormalizePatientStatusCall
  \/ NormalizeReportStatusCall
  \/ NormalizeSpecialtyCall
  \/ GeneratePatientIdCall

SpecHelpers == Init /\ [][NextHelpers]_vars

(***************************************************************************)
(* Properties of the helper functions                                      *)
(***************************************************************************)
\* the candidates, by position, that name a key of the payload exactly
ExactHits(payload, possibleNames) ==
  {i \in 1..Len(possibleNames) : \E k \in 1..Len(payload) : payload[k][1] = possibleNames[i]}

\* the candidates, by position, that name a key of the payload ignoring case
LooseHits(payload, possibleNames) ==
  {i \in 1..Len(possibleNames) :
     \E k \in 1..Len(payload) : KeyLower(payload[k][1]) = KeyLower(possibleNames[i])}

\* C11: findField answers with the value of the first candidate, in list
\* order, that is a key of the payload exactly; only when no candidate is an
\* exact key does it answer with the value of a key that matches the first
\* loosely matching candidate ignoring case; without any match it answers
\* absent.  So an exact match of a later candidate beats a case-insensitive
\* match of an earlier one.
C11_ExactBeforeInsensitive ==
  call.op = "findField" =>
    LET payload == call.args[1]
        possibleNames == call.args[2]
        exact == ExactHits(payload, possibleNames)
        loose == LooseHits(payload, possibleNames)
    IN /\ exact # {} =>
            \E k \in 1..Len(payload) :
              /\ payload[k][1] = possibleNames[SetMin(exact)]
              /\ call.result = cleanFieldValue(payload[k][2])
       /\ (exact = {} /\ loose # {}) =>
            \E k \in 1..Len(payload) :
              /\ KeyLower(payload[k][1]) = KeyLower(possibleNames[SetMin(loose)])
              /\ call.result = cleanFieldValue(payload[k][2])
       /\ loose = {} => call.result = Null

\* the later candidate "ID" is an exact key and wins over "ReportId", which
\* matches the earlier candidate "reportId" only when case is ignored
C11_Witness ==
  /\ call.op = "findField"
  /\ call.args[2] = <<"reportId", "ID">>
  /\ call.args[1] = <<<<"ReportId", FieldValue("ReportId")>>, <<"ID", FieldValue("ID")>>>>
  /\ call.result = Str(<<"x">>)

\* s without the white space at its two ends
TrimmedForm(s) ==
  LET inked == {i \in 1..Len(s) : ~IsSpace(s[i])}
  IN IF inked = {} THEN <<>> ELSE SubSeq(s, SetMin(inked), SetMax(inked))

\* the trimmed strings that stand for no value
StandsForAbsent(t) ==
  \/ t \in {<<>>, <<"-">>}
  \/ toLowerCase(t) \in {<<"n", "/", "a">>, <<"n", "u", "l", "l">>}

\* C12: cleanFieldValue answers absent for a string exactly when its trimmed
\* form is "", "-", "n/a" or "null" (the last two in any case), answers every
\* other string trimmed and every value that is not a string unchanged; and
\* what findField answers is absent or the cleaned value of a payload key.
C12_CleanedValues ==
  /\ call.op = "cleanFieldValue" =>
       IF IsStr(call.args[1])
         THEN /\ IsNull(call.result) <=> StandsForAbsent(TrimmedForm(call.args[1].v))
              /\ ~IsNull(call.result) => call.result = Str(TrimmedForm(call.args[1].v))
         ELSE call.result = call.args[1]
  /\ call.op = "findField" =>
       \/ IsNull(call.result)
       \/ \E k \in 1..Len(call.args[1]) :
            /\ IsStr(call.args[1][k][2])
            /\ ~StandsForAbsent(TrimmedForm(call.args[1][k][2].v))
            /\ call.result = Str(TrimmedForm(call.args[1][k][2].v))

\* " N/a " is cleaned to absent
C12_Witness ==
  /\ call.op = "cleanFieldValue"
  /\ call.args[1] = Str(<<" ", "N", "/", "a", " ">>)
  /\ IsNull(call.result)

\* C13: parseAge answers a number with that number (0 included), a string
\* that holds a digit with the integer its first run of digits spells, and a
\* string without a digit with absent.
C13_ParseAge ==
  call.op = "parseAge" =>
    /\ IsNum(call.args[1]) => call.result = call.args[1]
    /\ (IsStr(call.args[1]) /\ \E i \in 1..Len(call.args[1].v) : call.args[1].v[i] \in Digits)
         => call.result = Num(ParseDigits(FirstDigitRun(call.args[1].v)))
    /\ (IsStr(call.args[1]) /\ \A i \in 1..Len(call.args[1].v) : call.args[1].v[i] \notin Digits)
         => IsNull(call.result)

\* C14: whatever the input, normalizePatientStatus answers a Patient status,
\* normalizeReportStatus a Report status and normalizeSpecialty a Doctor
\* specialty of the schema; an input that is absent or not a string gives
\* the default of the normalizer.
C14_NormalizedIntoEnum ==
  /\ call.op = "normalizePatientStatus" =>
       /\ IsStr(call.result) /\ call.result.v \in PatientStatusEnum
       /\ ~IsStr(call.args[1]) => call.result = Str(sReportGenerated)
  /\ call.op = "normalizeReportStatus" =>
       /\ IsStr(call.result) /\ call.result.v \in ReportStatusEnum
       /\ ~IsStr(call.args[1]) => call.result = Str(sReportGenerated)
  /\ call.op = "normalizeSpecialty" =>
       /\ IsStr(call.result) /\ call.result.v \in SpecialtyEnum
       /\ ~IsStr(call.args[1]) => call.result = Str(sGeneralPractitioner)

\* the positions of the phrases of a table that lower is equal to
PhraseHits(map, lower) == {i \in 1..Len(map) : map[i][1] = lower}

\* the positions of the keyword groups one of whose substrings lower contains
KeywordHits(keywords, lower) ==
  {i \in 1..Len(keywords) :
     \E m \in 1..Len(keywords[i][1]) :
       \E at \in 0..(Len(lower) - Len(keywords[i][1][m])) :
         SubSeq(lower, at + 1, at + Len(keywords[i][1][m])) = keywords[i][1][m]}

\* the phrase first, then the keywords in their order, the default last
LookupThenScan(map, keywords, default, value, result) ==
  LET lower == toLowerCase(value.v)
      phrases == PhraseHits(map, lower)
      groups == KeywordHits(keywords, lower)
  IN /\ phrases # {} => result = Str(map[SetMax(phrases)][2])
     /\ (phrases = {} /\ groups # {}) => result = Str(keywords[SetMin(groups)][2])
     /\ (phrases = {} /\ groups = {} /\ IsStr(result)) => result = default
     /\ result = default =>
          \/ phrases = {} /\ groups = {}
          \/ phrases # {} /\ Str(map[SetMax(phrases)][2]) = default
          \/ phrases = {} /\ Str(keywords[SetMin(groups)][2]) = default

\* C15: a normalizer answers a string input with the target of the table
\* phrase the lower-cased input is equal to, even when the input holds a
\* keyword of another target; without such a phrase with the target of the
\* first keyword group, in the fixed order, the input holds; and with the
\* default only when neither matches.  "report delivered" gives Report
\* Delivered, "Report PDF (Webhook)" Report Generated, "on hold" On Hold and
\* "xyz123" Report Generated.
C15_PhraseBeforeKeywords ==
  /\ (call.op = "normalizePatientStatus" /\ IsStr(call.args[1]) /\ call.args[1].v # <<>>) =>
       LookupThenScan(PatientStatusMap, PatientStatusKeywords, PatientStatusDefault,
                      call.args[1], call.result)
  /\ (call.op = "normalizeReportStatus" /\ IsStr(call.args[1]) /\ call.args[1].v # <<>>) =>
       LookupThenScan(ReportStatusMap, ReportStatusKeywords, ReportStatusDefault,
                      call.args[1], call.result)
  /\ (call.op = "normalizeSpecialty" /\ IsStr(call.args[1]) /\ call.args[1].v # <<>>) =>
       LookupThenScan(SpecialtyMap, SpecialtyKeywords, SpecialtyDefault,
                      call.args[1], call.result)
  /\ call.op = "normalizePatientStatus" =>
       /\ call.args[1] = Str(<<"r", "e", "p", "o", "r", "t", " ", "d", "e", "l", "i", "v", "e", "r", "e", "d">>)
            => call.result = Str(sReportDelivered)
       /\ call.args[1] = Str(<<"R", "e", "p", "o", "r", "t", " ", "P", "D", "F", " ", "(", "W", "e", "b", "h", "o", "o", "k", ")">>)
            => call.result = Str(sReportGenerated)
       /\ call.args[1] = Str(<<"o", "n", " ", "h", "o", "l", "d">>) => call.result = Str(sOnHold)
       /\ call.args[1] = Str(<<"x", "y", "z", "1", "2", "3">>) => call.result = Str(sReportGenerated)

\* "report delivered" holds the keyword "report" of Report Generated and is
\* answered with the target of its phrase
C15_Witness ==
  /\ call.op = "normalizePatientStatus"
  /\ call.args[1] = Str(<<"r", "e", "p", "o", "r", "t", " ", "d", "e", "l", "i", "v", "e", "r", "e", "d">>)
  /\ call.result = Str(sReportDelivered)

(***************************************************************************)
(* Successive events of one report                                         *)
(***************************************************************************)
\* a later event of the report that carries its two identifiers and no more
PayloadBare ==
  <<<<"reportId", Str(sReportA)>>, <<"patientId", Str(sPatientA)>>>>

\* an event of the report whose test name is an object instead of a string
PayloadOdd ==
  <<<<"reportId", Str(sReportA)>>, <<"patientId", Str(sPatientA)>>,
    <<"reportBase64", Str(sPdfData)>>, <<"testName", Obj(<<>>)>>>>

ReportPayloads == {PayloadFull, PayloadSparse, PayloadBare, PayloadOdd}

ReportStart ==
  /\ Idle
  /\ \E payload \in ReportPayloads : HandleWebhookBegin(1, GoodToken, payload)
  /\ UNCHANGED locals

ReportRun == HandleWebhookStep(1) /\ UNCHANGED locals

NextReport ==
  \/ ReportStart
  \/ ReportRun

SpecReport == Init /\ [][NextReport]_vars

\* the paths of a Report an event can carry, each with the extracted field
\* that carries it
ReportCarriers ==
  [status |-> "status", billId |-> "billId", testId |-> "testId", testName |-> "testName",
   testCategory |-> "testCategory", testCode |-> "testCode", reportBase64 |-> "reportBase64",
   doctor |-> "doctorName"]

\* C16: when handleWebhook saves an existing Report, every path of the stored
\* Report whose field the event does not carry (status, billId, testId,
\* testName, testCategory, testCode, reportBase64, doctor) keeps its value.
C16_ReportUpdateKeepsFields ==
  [][\A p \in Procs :
       (procs[p].pc = "reportSave" /\ procs[p].reportRef # 0 /\ procs'[p].pc = "respond")
         => \A path \in DOMAIN ReportCarriers :
              IsNull(procs[p].fields[ReportCarriers[path]])
                => Get(reports'[procs[p].reportRef], path) = Get(reports[procs[p].reportRef], path)]_vars

\* the number of PDF writes of a reportId
Writes(reportId) == Len(SelectSeq(files, LAMBDA f : f = reportId))

\* the number of deliveries of a reportId that were answered with an error
Failures(reportId) ==
  Len(SelectSeq(log, LAMBDA e : /\ e.op = "handleWebhook"
                                /\ e.status # 200
                                /\ HasOwn(e.payload, "reportId")
                                /\ Str(StringOf(GetOwn(e.payload, "reportId"))) = reportId))

\* C17 as stated: over a sequence of deliveries the PDF of a Report is
\* written only while no stored Report of that reportId records a pdfPath, a
\* recorded pdfPath comes with fileSize and fileName, and the file of a
\* reportId is written exactly once: never a second time.
C17_FileWrittenOnce ==
  /\ [](/\ \A n \in 1..Len(files) : Writes(files[n]) <= 1
         /\ \A i \in 1..Len(reports) :
              Truthy(Get(reports[i], "pdfPath"))
                => /\ Writes(Get(reports[i], "reportId")) = 1
                   /\ ~IsNull(Get(reports[i], "fileSize"))
                   /\ ~IsNull(Get(reports[i], "fileName")))
  /\ [][Len(files') > Len(files)
         => \A i \in 1..Len(reports) :
              Get(reports[i], "reportId") = files'[Len(files')]
                => ~Truthy(Get(reports[i], "pdfPath"))]_vars

\* C17, amended: over a sequence of deliveries the PDF of a Report is written
\* only while no stored Report of that reportId records a pdfPath, so no
\* delivery writes it again once a pdfPath is recorded; a recorded pdfPath
\* comes with fileSize and fileName and with a write; and the file is
\* written at most once more than there were deliveries of the reportId
\* that failed.
C17_WrittenWhileNoPath ==
  /\ [](/\ \A n \in 1..Len(files) : Writes(files[n]) <= 1 + Failures(files[n])
         /\ \A i \in 1..Len(reports) :
              Truthy(Get(reports[i], "pdfPath"))
                => /\ Writes(Get(reports[i], "reportId")) >= 1
                   /\ ~IsNull(Get(reports[i], "fileSize"))
                   /\ ~IsNull(Get(reports[i], "fileName")))
  /\ [][Len(files') > Len(files)
         => \A i \in 1..Len(reports) :
              Get(reports[i], "reportId") = files'[Len(files')]
                => ~Truthy(Get(reports[i], "pdfPath"))]_vars

\* two deliveries of the base64 data of the same report have been answered
\* and its PDF has been written once
C17_Witness ==
  /\ Len(log) >= 2
  /\ log[1].status = 200 /\ log[1].payload = PayloadFull
  /\ log[2].status = 200 /\ log[2].payload = PayloadSparse
  /\ Len(reports) = 1 /\ Truthy(Get(reports[1], "pdfPath"))
  /\ files = <<Str(sReportA)>>

(***************************************************************************)
(* Background work: the alert e-mail of handleWebhook and the              *)
(* consolidation that consolidatePatientFromWebhook schedules              *)
(***************************************************************************)
\* what the mail transport does: none is configured, it sends, or it fails
Transports == {"unconfigured", "sends", "fails"}

\* a variant whose catch block throws the error again
sendWebhookAlertRethrows(transport) ==
  IF transport = "fails"
    THEN [settled |-> "rejected", success |-> FALSE, logged |-> TRUE]
    ELSE [settled |-> "fulfilled", success |-> transport = "sends", logged |-> FALSE]

\* sendWebhookAlert (emailService.js): the promise it returns.  Without a
\* transport it returns early; an error of initializeTransporter or sendMail
\* is caught, logged and returned as { success: false }
sendWebhookAlert(transport) ==
  [settled |-> "fulfilled", success |-> transport = "sends", logged |-> transport = "fails"]

\* handleWebhook: the alert is dispatched and 200 is answered; the promise of
\* the alert settles on its own
RespondAlert ==
  /\ Respond(1)
  /\ \E transport \in Transports :
       call' = Called("sendWebhookAlert", <<transport>>, sendWebhookAlert(transport))
  /\ UNCHANGED <<merged, immediates>>

BackgroundWebhook ==
  /\ Idle
  /\ \E payload \in {PayloadFull, PayloadBare} : HandleWebhookBegin(1, GoodToken, payload)
  /\ UNCHANGED locals

BackgroundWebhookRun == procs[1].pc # "respond" /\ HandleWebhookStep(1) /\ UNCHANGED locals

WebhookTypes == {"billGenerate", "reportStatus", "sampleStatus", "other"}

\* consolidatePatientFromWebhook (patientConsolidationService.js): the bill
\* of the webhook data is read inside try/catch (undefined data throws a
\* TypeError that is logged), and the consolidation is handed to setImmediate
consolidatePatientFromWebhook(webhookType, webhookData) ==
  LET known == webhookType \in {"billGenerate", "reportStatus", "sampleStatus"}
      threw == known /\ IsNull(webhookData)
      billId == IF known /\ ~threw THEN Field(webhookData.v, "billId") ELSE Null
      billIdNumber == IF known /\ ~threw
                        THEN Or(Field(webhookData.v, "bill_id"), Field(webhookData.v, "billId"))
                        ELSE Null
  IN [settled |-> "fulfilled", logged |-> threw,
      scheduled |-> IF Truthy(billId) \/ Truthy(billIdNumber)
                      THEN <<<<billId, billIdNumber>>>> ELSE <<>>]

\* the webhook data handed to consolidatePatientFromWebhook
WebhookData ==
  {Null, Obj(<<>>), Obj(<<<<"billId", Num(5)>>>>), Obj(<<<<"bill_id", Num(5)>>>>)}

ConsolidatePatientFromWebhook ==
  /\ Idle
  /\ calls < MaxCalls
  /\ calls' = calls + 1
  /\ \E webhookType \in WebhookTypes, webhookData \in WebhookData :
       /\ call' = Called("consolidatePatientFromWebhook", <<webhookType, webhookData>>,
                         consolidatePatientFromWebhook(webhookType, webhookData))
       /\ immediates' = immediates
                          \o consolidatePatientFromWebhook(webhookType, webhookData).scheduled
  /\ UNCHANGED <<store, now, procs, log, merged>>

\* the callback of setImmediate: consolidatePatientFromBillId(billId,
\* billIdNumber).catch(...) of the first scheduled consolidation
RunImmediate ==
  /\ Idle
  /\ immediates # <<>>
  /\ RunConsolidation(Head(immediates)[1], Head(immediates)[2])
  /\ immediates' = Tail(immediates)
  /\ UNCHANGED <<calls, merged, call>>

\* a report-status webhook body of bill 5 whose Sample Date is no date
ReportStatusBodyUndated ==
  <<<<"billId", Num(5)>>, <<"status", Str(<<"R", "e", "p", "o", "r", "t", " ", "S", "i", "g", "n", "e", "d">>)>>,
    <<"reportDetails",
      Arr(<<Obj(<<<<"Sample Date", Str(<<"s", "o", "o", "n">>)>>>>)>>)>>>>

BackgroundTrack ==
  /\ Idle
  /\ \E body \in {ReportStatusBody, ReportStatusBodyUndated} : trackReportStatusHandler(Null, body)
  /\ UNCHANGED locals

NextBackground ==
  \/ BackgroundWebhook
  \/ BackgroundWebhookRun
  \/ RespondAlert
  \/ BillGenerate
  \/ BackgroundTrack
  \/ ConsolidatePatientFromWebhook
  \/ RunImmediate

SpecBackground == Init /\ [][NextBackground]_vars

\* C18: no failure of background work reaches the caller of a webhook.  The
\* promise of sendWebhookAlert, of consolidatePatientFromWebhook and of every
\* consolidatePatientFromBillId is fulfilled, never rejected;
\* consolidatePatientFromWebhook returns with the store as it was, the
\* consolidation still to run; and a handleWebhook request whose own writes
\* succeeded is answered 200 whatever the outcome of the alert.
C18_BackgroundFailuresSwallowed ==
  /\ [](/\ (call.op \in {"sendWebhookAlert", "consolidatePatientFromWebhook"}
               => call.result.settled = "fulfilled")
         /\ \A i \in 1..Len(log) :
              log[i].op = "consolidatePatientFromBillId" => log[i].promise.settled = "fulfilled")
  /\ [][/\ ((call' # call /\ call'.op = "consolidatePatientFromWebhook")
               => /\ store' = store /\ log' = log
                  /\ Len(immediates') = Len(immediates) + Len(call'.result.scheduled))
          /\ (procs[1].pc = "respond"
               => /\ Len(log') = Len(log) + 1
                  /\ log'[Len(log')].op = "handleWebhook"
                  /\ log'[Len(log')].status = 200)]_vars

\* a scheduled consolidation has failed and was logged, and a request whose
\* alert e-mail failed has been answered 200
C18_Witness ==
  /\ \E i \in 1..Len(log) :
       log[i].op = "consolidatePatientFromBillId" /\ log[i].promise.logged
  /\ call.op = "sendWebhookAlert" /\ call.args = <<"fails">> /\ call.result.logged
  /\ log[Len(log)].op = "handleWebhook" /\ log[Len(log)].status = 200

\* the positions of handleWebhook at an awaited save of a document
SavePositions == {"patientSave", "doctorSave", "labSave", "reportSave"}

\* C19: when a save of the Patient, Doctor, Lab or Report of a handleWebhook
\* request fails, the request is answered with HTTP 500.
C19_FailedWriteAnswers500 ==
  [][\A p \in Procs :
       (procs[p].pc \in SavePositions /\ procs'[p].pc = "idle" /\ Len(log') = Len(log) + 1)
         => log'[Len(log')].status = 500]_vars

\* the request of the latest report-status tracker of bill 5, or <<>>
LatestTrackerOfBill ==
  LET refs == {i \in 1..Len(reportStatusTrackers) :
                 MatchesBill(reportStatusTrackers[i], Num(5), Null)}
  IN IF refs = {} THEN <<>> ELSE reportStatusTrackers[SetMax(refs)].request

\* C20: a Sample Date that does not parse to a valid date is left out of the
\* stored Patient and does not make the rest of the update fail: after a run
\* of consolidatePatientFromBillId the patient of the bill has no sampleDate
\* and has the report status of the tracker that carried the date.
C20_BadDateOmitted ==
  [][(/\ Len(log') = Len(log) + 1
      /\ log'[Len(log')].op = "consolidatePatientFromBillId"
      /\ log'[Len(log')].payload[1] = Num(5)
      /\ Truthy(Prop(First(Field(LatestTrackerOfBill, "reportDetails")), "Sample Date"))
      /\ IsNull(parseDate(Prop(First(Field(LatestTrackerOfBill, "reportDetails")), "Sample Date"))))
       => \A i \in 1..Len(patients') :
            Get(patients'[i], "billId") = Str(sBillA)
              => /\ IsNull(Get(patients'[i], "sampleDate"))
                 /\ Get(patients'[i], "reportStatus") = Field(LatestTrackerOfBill, "status")]_vars

(***************************************************************************)
(* Properties of the consolidation and of the doctors                      *)
(***************************************************************************)
\* C21: every reportStatus stored on a Patient is a value of the status
\* enums; in particular a patient whose bill had a report-status event with
\* the status "Report PDF (Webhook)" never holds that text but "Report
\* Generated".
C21_ReportStatusNormalized ==
  \A i \in 1..Len(patients) :
    \/ IsNull(Get(patients[i], "reportStatus"))
    \/ /\ IsStr(Get(patients[i], "reportStatus"))
       /\ Get(patients[i], "reportStatus").v \in PatientStatusEnum \cup ReportStatusEnum

\* the sub-keys of an address value, none when it is no object
SubKeys(address) == IF address.t = "object" THEN DOMAIN address.v ELSE {}

\* the value of a sub-key of an address value, null when it has none
SubValue(address, k) == IF k \in SubKeys(address) THEN address.v[k] ELSE Null

\* C22: mergePatientData merges the address sub-key by sub-key: a sub-key
\* the existing address has populated keeps its value whatever the fragment
\* carries for it, a sub-key that is empty takes the value of the fragment,
\* and the merged address holds no null.
C22_AddressFillsOnly ==
  [][(Len(log') = Len(log) + 1 /\ log'[Len(log')].op = "mergePatientData"
        /\ log'[Len(log')].payload.address.t = "object")
       => LET old == Get(merged, "address")
              new == log'[Len(log')].payload.address
              now2 == Get(merged', "address")
          IN \A k \in SubKeys(old) \cup SubKeys(new) :
               /\ ~IsNull(SubValue(old, k)) => SubValue(now2, k) = SubValue(old, k)
               /\ IsNull(SubValue(old, k)) => SubValue(now2, k) = SubValue(new, k)
               /\ k \in SubKeys(now2) => ~IsNull(now2.v[k])]_vars


(***************************************************************************)
(* Successive events that name a doctor                                    *)
(***************************************************************************)
sReferPhoneA == <<"1", "1", "1">>

sReferPhoneB == <<"2", "2", "2">>

\* an event whose referral carries the doctor's e-mail address and phone
PayloadReferA ==
  <<<<"reportId", Str(sReportB)>>, <<"patientId", Str(sPatientA)>>,
    <<"doctorName", Str(sDrS)>>, <<"referralEmail", Str(sMailA)>>,
    <<"referralContact", Str(sReferPhoneA)>>>>

\* an event that names the same doctor with another address and phone
PayloadReferB ==
  <<<<"reportId", Str(sReportB)>>, <<"patientId", Str(<<"P", "2">>)>>,
    <<"doctorName", Str(sDrS)>>, <<"referralEmail", Str(sMailB)>>,
    <<"referralContact", Str(sReferPhoneB)>>>>

\* an event whose doctor name is a part of the name "Dr. S"
PayloadShort ==
  <<<<"reportId", Str(sReportB)>>, <<"patientId", Str(sPatientA)>>,
    <<"doctorName", Str(<<"S">>)>>>>

DoctorPayloads == {PayloadFull, PayloadReferA, PayloadReferB, PayloadShort}

DoctorStart ==
  /\ Idle
  /\ \E payload \in DoctorPayloads : HandleWebhookBegin(1, GoodToken, payload)
  /\ UNCHANGED locals

DoctorRun == HandleWebhookStep(1) /\ UNCHANGED locals

NextDoctor ==
  \/ DoctorStart
  \/ DoctorRun

SpecDoctor == Init /\ [][NextDoctor]_vars

\* C23: the doctor lookup is a match of the full name: a request resolves to
\* an existing Doctor only if the name it carries and the stored name are
\* equal when letter case is ignored, never when it is a part of the stored name.
C23_FullNameMatch ==
  \A p \in Procs :
    (procs[p].pc = "doctorSave" /\ procs[p].doctorRef # 0)
      => toLowerCase(StringOf(procs[p].fields.doctorName))
           = toLowerCase(Get(doctors[procs[p].doctorRef], "name").v)


\* the Doctor documents that this step changes
ChangedDoctors(path) ==
  {i \in 1..Len(doctors) : Get(doctors'[i], path) # Get(doctors[i], path)}

\* C24: a request that finds an existing Doctor changes its email only if the
\* stored email is a generated one (@crelio.local) and its phone only if the
\* stored phone is the default phone.
C24_RealContactKept ==
  [][/\ \A i \in ChangedDoctors("email") : includes(Get(doctors[i], "email").v, CrelioLocal)
     /\ \A i \in ChangedDoctors("phone") : Get(doctors[i], "phone") = generateDoctorPhone]_vars


(***************************************************************************)
(* Properties of the batch consolidation                                   *)
(***************************************************************************)
\* the last n elements of s, all of s when it is shorter
LastChars(s, n) == SubSeq(s, IF Len(s) > n THEN Len(s) - n + 1 ELSE 1, Len(s))

\* the first n elements of s, all of s when it is shorter
FirstChars(s, n) == SubSeq(s, 1, IF Len(s) > n THEN n ELSE Len(s))

\* C26: for data that holds only a name and a phone, generatePatientId returns
\* "PAT-" followed by the first 6 characters of the name and the last 4
\* digits of the phone.
C26_NameAndPhoneId ==
  call.op = "generatePatientId"
    => call.result = Str(sPAT \o FirstChars(call.args[1].v, 6)
                              \o LastChars(OnlyDigits(call.args[2].v), 4))


\* the entries of a patientMap whose explicit patient identifier is the fragment's
SameIdentifier(map, patientData) ==
  {i \in 1..Len(map) : /\ Truthy(Get(patientData, "patientIdNumber"))
                       /\ Get(map[i].data, "patientIdNumber") = Get(patientData, "patientIdNumber")}

\* the entries of a patientMap whose bill is the fragment's
SameBill(map, patientData) ==
  {i \in 1..Len(map) : /\ Truthy(Get(patientData, "billId"))
                       /\ Get(map[i].data, "billId") = Get(patientData, "billId")}

\* C25: a report-status or sample-status fragment is merged into the patient
\* whose explicit identifier it carries, and into the patient of its bill only
\* when no patient has that identifier.
C25_IdentifierBeforeBill ==
  call.op = "TrackerPatientId"
    => LET map == call.args[1]
           patientData == call.args[2]
       IN /\ \A i \in SameIdentifier(map, patientData) : call.result = map[i].key
          /\ SameIdentifier(map, patientData) = {}
               => \A i \in SameBill(map, patientData) : call.result = map[i].key


(***************************************************************************)
(* Properties of the consolidation service                                 *)
(***************************************************************************)
\* the paths that updateData of consolidatePatientFromBillId can hold
UpdateDataPaths == {"signingDoctor", "reportBase64", "reportStatus", "sampleDate",
                    "accessionDate", "assignedDoctor"}

\* this step is a run of consolidatePatientFromBillId
ServiceRuns == Answers({"consolidatePatientFromBillId"})

\* C27: a run of consolidatePatientFromBillId changes, of a Patient that
\* existed before the run, at most signingDoctor, reportBase64, reportStatus,
\* sampleDate, accessionDate and assignedDoctor; every other path keeps its value.
C27_ServiceKeepsOtherFields ==
  [][ServiceRuns
       => \A i \in 1..Len(patients) :
            \A path \in (DOMAIN patients[i] \cup DOMAIN patients'[i]) \ UpdateDataPaths :
              Get(patients'[i], path) = Get(patients[i], path)]_vars

\* a run has updated a Patient that a report webhook had created with its name
C27_Witness ==
  /\ log # <<>>
  /\ log[Len(log)].op = "consolidatePatientFromBillId"
  /\ log[Len(log)].created = {}
  /\ \E i \in 1..Len(patients) :
       /\ Get(patients[i], "name") = Str(sAnn)
       /\ Get(patients[i], "age") = Num(26)
       /\ Truthy(Get(patients[i], "reportStatus"))


(***************************************************************************)
(* Concurrent events that name the same new doctor, while the clock runs   *)
(***************************************************************************)
MaxClock == 2

RacePayloads == {PayloadReferA, PayloadReferB}

RaceStart ==
  \E p \in Procs : \E payload \in RacePayloads :
    /\ \A q \in Procs \ {p} : procs[q].pc \in {"idle", "patientFind"}
    /\ p = 2 => procs[1].pc # "idle"
    /\ calls < MaxConcurrent
    /\ HandleWebhookBegin(p, GoodToken, payload)
    /\ UNCHANGED locals

RaceRun == (\E p \in Procs : HandleWebhookStep(p)) /\ UNCHANGED locals

\* Date.now() of a later await: a millisecond passes while requests wait
ClockTick ==
  /\ now < MaxClock
  /\ now' = now + 1
  /\ UNCHANGED <<store, calls, procs, log, locals>>

NextRace ==
  \/ RaceStart
  \/ RaceRun
  \/ ClockTick

SpecRace == Init /\ [][NextRace]_vars

\* the Doctor that the request of p creates when its lookup found nothing
FreshDoctor(p) == WithDefaults(CastDoctor(NewDoctor(procs[p].fields, now)), DoctorDefaults)

\* the Doctors that bear the name of the request of p
Namesakes(p) ==
  {i \in 1..Len(doctors) : Get(doctors[i], "name") = procs[p].fields.doctorName}

\* C28: find-or-create of a Doctor is not atomic: a request whose lookup found
\* nothing creates its Doctor although another request has created a Doctor of
\* that name in between, whenever doctorId and email are free; two Doctors of
\* one name are then in the store.
C28_CreateAfterStaleLookup ==
  [][\A p \in Procs :
       (/\ procs[p].pc = "doctorSave" /\ procs[p].doctorRef = 0
        /\ procs'[p] # procs[p]
        /\ Namesakes(p) # {}
        /\ ~DoctorInvalid(FreshDoctor(p))
        /\ ~DuplicateKey(doctors, "doctorId", FreshDoctor(p).doctorId, 0)
        /\ ~DuplicateKey(doctors, "email", FreshDoctor(p).email, 0))
       => /\ doctors' = Append(doctors, FreshDoctor(p))
          /\ "Doctor" \in procs'[p].created]_vars

\* both lookups returned nothing, both creates succeeded: two Doctors of one name
C28_Witness ==
  /\ \A p \in Procs : "Doctor" \in procs[p].created
  /\ \E i \in 1..Len(doctors) : \E j \in 1..Len(doctors) :
       i # j /\ Get(doctors[i], "name") = Get(doctors[j], "name")


\* this step is a run of the batch consolidation
BatchRuns == Answers({"consolidatePatientData"})

\* the patientMap that a run starting at time saves in Step 7
SavedMap(time, tick) == Step6(BuildMap(time), doctors, 1, time, tick).map

\* the entries of a patientMap that have a name and pass the validation
NamedEntries(map) ==
  {i \in 1..Len(map) :
     /\ Truthy(Get(map[i].data, "name"))
     /\ \A keyedIds \in BOOLEAN :
          ~PatientInvalid(WithDefaults(CastPatient(CleanUp(map[i].data, keyedIds)),
                                       PatientDefaults))}

\* C29: in Step 7 an entry of the patientMap without a name is skipped, and
\* every entry with a name is created or updated, wherever it stands in the
\* map: after the run a Patient with its patientId is in the store.
C29_NamedEntriesSaved ==
  [][BatchRuns
       => \A tick \in 0..1 :
            now' = RunClock(now + tick, tick, doctors')
              => \A i \in NamedEntries(SavedMap(now + tick, tick)) :
                   \E j \in 1..Len(patients') :
                     Get(patients'[j], "patientId")
                       = CastTrim(SavedMap(now + tick, tick)[i].key)]_vars


\* the Patients whose assignedDoctor is the Doctor at position d
PatientsOf(d) == {i \in 1..Len(patients) : Get(patients[i], "assignedDoctor") = Id(d)}

\* no run of the batch script has taken place
NoBatchRun == \A k \in 1..Len(log) : log[k].op # "consolidatePatientData"

\* C30: when every handleWebhook request and every run of
\* consolidatePatientFromBillId so far has completed, the patientCount of each
\* Doctor is the number of Patients whose assignedDoctor is that Doctor.
C30_PatientCountExact ==
  (Idle /\ NoBatchRun)
    => \A d \in 1..Len(doctors) :
         Get(doctors[d], "patientCount") = Num(Cardinality(PatientsOf(d)))

====
